---------------------------- MODULE Spec2Model ----------------------------
(* GestProdAdmin: the bobina table, the normalization passes that run on    *)
(* every load, the table model that mirrors the table in memory, and the    *)
(* handlers of the production control widget that write calidad, obs and    *)
(* codigoDeProducto.                                                        *)
(*                                                                          *)
(* Text values are sequences of one-character strings, so that slicing,     *)
(* stripping and padding are computed as the Python code computes them.     *)
(* SQL NULL / Python None is the value Null.  Numbers are records           *)
(* [k, v]: k = "num" with v in hundredths, k = "null" for NULL, k = "text"  *)
(* for a text that float() rejects.  Dates are records [k, d]: d a day      *)
(* number, k the textual form stored ("iso" yyyy-mm-dd, "dmy" dd/mm/yyyy,   *)
(* "isotime" yyyy-mm-dd hh:mm:ss, "ymd" yyyy/mm/dd, "dashed" dd-mm-yyyy,    *)
(* "empty" for '', "bad" for a text no format parses, "null" for NULL).     *)
(* Decimal arithmetic is exact (binary floating point error is not          *)
(* modelled).                                                               *)
EXTENDS Integers, Sequences, FiniteSets, TLC

VARIABLES
  db,         \* the bobina table: rowid -> row
  running,    \* the main window and its production widget exist
  data_rows,  \* ProductionTableModel.data_rows
  of_filter,  \* text of the OF filter box (and of the proxy model)
  catalog,    \* name of the production table in sqlite_master
  last        \* what the last handler did

vars == <<db, running, data_rows, of_filter, catalog, last>>

-----------------------------------------------------------------------------
(* Bounds of the model *)

\* rows of the table in the recode data family
MaxRows == 2
\* rows the table may grow to by Add and Copy
MaxTableRows == 3
\* the day datetime.now() returns (a day number)
Hoy == 100

-----------------------------------------------------------------------------
(* Text helpers *)

Null == <<"NULL">>

\* str(x) if x is not None else ''
Str(v) == IF v = Null THEN <<>> ELSE v

RECURSIVE LStripChar(_, _)
LStripChar(s, c) ==
  IF s # <<>> /\ Head(s) = c THEN LStripChar(Tail(s), c) ELSE s

RECURSIVE RStripChar(_, _)
RStripChar(s, c) ==
  IF s # <<>> /\ s[Len(s)] = c THEN RStripChar(SubSeq(s, 1, Len(s) - 1), c) ELSE s

\* str.strip()
Strip(s) == RStripChar(LStripChar(s, " "), " ")

RECURSIVE Zeros(_)
Zeros(n) == IF n <= 0 THEN <<>> ELSE <<"0">> \o Zeros(n - 1)

\* str.zfill(w): zeros go after a leading sign
Zfill(s, w) ==
  IF s # <<>> /\ Head(s) \in {"-", "+"}
  THEN <<Head(s)>> \o Zeros(w - Len(s)) \o Tail(s)
  ELSE Zeros(w - Len(s)) \o s

\* s[-n:]
LastN(s, n) == IF Len(s) <= n THEN s ELSE SubSeq(s, Len(s) - n + 1, Len(s))

\* s[:n]
FirstN(s, n) == IF Len(s) <= n THEN s ELSE SubSeq(s, 1, n)

DigitChar(d) == <<"0", "1", "2", "3", "4", "5", "6", "7", "8", "9">>[d + 1]

RECURSIVE Digits(_)
Digits(n) == IF n < 10 THEN <<DigitChar(n)>> ELSE Digits(n \div 10) \o <<DigitChar(n % 10)>>

\* str(i) of an integer
IntStr(i) == IF i < 0 THEN <<"-">> \o Digits(-i) ELSE Digits(i)

\* int(x) of x = n / k: truncation toward zero
TruncDiv(n, k) == IF n >= 0 THEN n \div k ELSE -((-n) \div k)

\* needle in haystack (Python's substring test)
IsSubstring(needle, hay) ==
  \E i \in 0..(Len(hay) - Len(needle)) : SubSeq(hay, i + 1, i + Len(needle)) = needle

\* a record with the fields of set replaced
Override(row, set) == [f \in DOMAIN row |-> IF f \in DOMAIN set THEN set[f] ELSE row[f]]

NullNum == [k |-> "null", v |-> 0]
TextNum == [k |-> "text", v |-> 0]
Num(v) == [k |-> "num", v |-> v]

NullDate == [k |-> "null", d |-> 0]
Dmy(d) == [k |-> "dmy", d |-> d]

-----------------------------------------------------------------------------
(* Finding the production table in the catalog.  The database holds one     *)
(* table, named catalog; db is its content.                                 *)

UpperLetters ==
  <<"A", "B", "C", "D", "E", "F", "G", "H", "I", "J", "K", "L", "M",
    "N", "O", "P", "Q", "R", "S", "T", "U", "V", "W", "X", "Y", "Z">>

LowerLetters ==
  <<"a", "b", "c", "d", "e", "f", "g", "h", "i", "j", "k", "l", "m",
    "n", "o", "p", "q", "r", "s", "t", "u", "v", "w", "x", "y", "z">>

\* LOWER(name)
Lower(name) ==
  [i \in 1..Len(name) |->
     IF \E j \in 1..26 : UpperLetters[j] = name[i]
     THEN LowerLetters[CHOOSE j \in 1..26 : UpperLetters[j] = name[i]]
     ELSE name[i]]

Bobina == <<"b", "o", "b", "i", "n", "a">>
Bobinas == <<"b", "o", "b", "i", "n", "a", "s">>

\* the lookup of the two passes: WHERE LOWER(name) = 'bobina'
BobinaTableFound(name) == Lower(name) = Bobina

\* the lookup of the table model's update_row:
\* WHERE LOWER(name) IN ('bobina', 'bobinas')
BobinaOrBobinasFound(name) == Lower(name) \in {Bobina, Bobinas}

\* the lookup of load_data: WHERE LOWER(name) = LOWER(?), and when that
\* finds nothing LOWER(name) = 'bobina' OR LOWER(name) = 'bobinas'
LoadTableFound(name, table_name) ==
  Lower(name) = Lower(table_name) \/ Lower(name) \in {Bobina, Bobinas}

\* the text of the hidden table selector after load_available_tables:
\* "bobina" when a table has exactly that name, else the first table
SelectorText(name) == name

-----------------------------------------------------------------------------
(* Field formatters (database/production_models.py) *)

_format_gramaje(gramaje) ==
  CASE gramaje.k = "null" -> <<"0", "0", "0">>
    [] gramaje.k = "num" -> Zfill(IntStr(TruncDiv(gramaje.v, 100)), 3)
    [] OTHER -> <<"0", "0", "0", "0">>

_format_diametro(diametro) ==
  CASE diametro.k = "num" -> Zfill(IntStr(TruncDiv(diametro.v, 10)), 4)
    [] OTHER -> <<"0", "0", "0", "0">>

_format_ancho(ancho) ==
  IF ancho.k # "num" THEN <<"0", "0", "0", "0", "0">>
  ELSE LET valor == IF ancho.v < 0 THEN -ancho.v ELSE ancho.v
           str_entero == LastN(Zfill(Digits(valor \div 100), 3), 3)
           str_decimal == FirstN(Zfill(Digits(valor % 100), 2), 2)
           resultado == IF ancho.v < 0 THEN <<"-">> \o str_entero \o str_decimal
                        ELSE str_entero \o str_decimal
           corto == FirstN(resultado, 5)
       IN corto \o Zeros(5 - Len(corto))

\* f"{float(peso):.2f}".replace('.', ','), "0,00" when float() raises
peso_formateado(peso) ==
  IF peso.k = "num"
  THEN LET a == IF peso.v < 0 THEN -peso.v ELSE peso.v
       IN (IF peso.v < 0 THEN <<"-">> ELSE <<>>)
          \o Digits(a \div 100) \o <<",">> \o Zfill(Digits(a % 100), 2)
  ELSE <<"0", ",", "0", "0">>

-----------------------------------------------------------------------------
(* update_quality_fields: the Quality/Observation Deriver and the date      *)
(* stamping, applied to every row of the table (UPDATE ... WHERE rowid = ?) *)

\* is_empty(value) of update_empty_bobinas_fields
is_empty(value) == value = Null \/ Strip(value) = <<>>

\* faulty variant: the zeros are not stripped
codprod_not_stripped(codprod_str) ==
  IF codprod_str = <<>> THEN <<"0">> ELSE codprod_str

\* codprod_str.lstrip('0'), '0' when nothing is left
codprod_normalized(codprod_str) ==
  LET stripped == LStripChar(codprod_str, "0")
  IN IF stripped = <<>> THEN <<"0">> ELSE stripped

\* the if/elif table: (new_calidad, new_obs)
DeriveQualityObs(codprod) ==
  LET codprod_str == IF codprod # Null THEN Strip(codprod) ELSE <<>>
      n == codprod_normalized(codprod_str)
  IN CASE n = <<"3">> -> <<(<<"0", "5">>), (<<"0", "2">>)>>
       [] n = <<"1">> -> <<(<<"0", "1">>), (<<"0", "0">>)>>
       [] n = <<"2">> -> <<(<<"0", "1">>), (<<"0", "2">>)>>
       [] n = <<"4">> -> <<(<<"0", "1">>), (<<"0", "0">>)>>
       [] n = <<"5">> -> <<(<<"0", "5">>), (<<"0", "2">>)>>
       [] n = <<"6">> -> <<(<<"0", "1">>), (<<"0", "2">>)>>
       [] n = <<"7">> -> <<(<<"0", "1">>), (<<"0", "0">>)>>
       [] OTHER -> <<(<<"0", "1">>), (<<"0", "0">>)>>

\* the calidad the pass writes: the derived one, whatever the row holds
NewCalidad(row) == DeriveQualityObs(row.codprod)[1]

\* the obs the pass writes
NewObs(row) == DeriveQualityObs(row.codprod)[2]

\* producto: second character of codprod when producto is blank
NewProducto(row) ==
  LET codprod_str == IF row.codprod # Null THEN Strip(row.codprod) ELSE <<>>
      producto_str == IF row.producto # Null THEN Strip(row.producto) ELSE <<>>
  IN IF producto_str = <<>> /\ Len(codprod_str) >= 2
     THEN <<codprod_str[2]>> ELSE row.producto

\* timedelta(days=5*365)
ValidezDays == 5 * 365

\* fecha: today when NULL or blank
NewFecha(row) == IF row.fecha.k \in {"null", "empty"} THEN Dmy(Hoy) ELSE row.fecha

\* the date fechaElaboracion is taken from: the fecha read BEFORE this
\* run's update, parsed with the four formats, today when none parses
fecha_dt(row) ==
  IF row.fecha.k \in {"iso", "dmy", "ymd", "dashed"} THEN row.fecha.d ELSE Hoy

NewFechaElaboracion(row) ==
  IF row.fecha.k # "null" THEN Dmy(fecha_dt(row)) ELSE row.fechaElaboracion

NewFechaValidezLote(row) ==
  IF row.fecha.k # "null" THEN Dmy(fecha_dt(row) + ValidezDays) ELSE row.fechaValidezLote

UpdateQualityRow(row) ==
  Override(row, [calidad |-> NewCalidad(row),
                 obs |-> NewObs(row),
                 producto |-> NewProducto(row),
                 fecha |-> NewFecha(row),
                 fechaElaboracion |-> NewFechaElaboracion(row),
                 fechaValidezLote |-> NewFechaValidezLote(row)])

\* the UPDATE statements of update_quality_fields on the rows of the table
QualityPass(table) == [rowid \in DOMAIN table |-> UpdateQualityRow(table[rowid])]

\* nothing is written when the table lookup finds no row
update_quality_fields(table) ==
  IF ~BobinaTableFound(catalog) THEN table ELSE QualityPass(table)

-----------------------------------------------------------------------------
(* update_empty_bobinas_fields: the Bulk Normalization Pass *)

\* WHERE codigoDeProducto IS NULL OR codigoDeProducto = ''
SelectedForFill(row) == row.codigoDeProducto = Null \/ row.codigoDeProducto = <<>>

\* str(x or '').strip()
StrOrEmpty(v) == Strip(Str(v))

nuevo_codigo(row) ==
  StrOrEmpty(row.alistamiento) \o StrOrEmpty(row.codprod)
    \o StrOrEmpty(row.calidad) \o StrOrEmpty(row.obs)
    \o _format_gramaje(row.gramaje) \o _format_diametro(row.diametro)
    \o _format_ancho(row.ancho)

FillCodigo(row) ==
  IF is_empty(row.codigoDeProducto) THEN nuevo_codigo(row) ELSE row.codigoDeProducto

FillCantidad(row) ==
  IF row.peso.k # "null" THEN peso_formateado(row.peso) ELSE row.CantidadEnPrimeraUdM

\* faulty variant: lote is composed whatever the row holds
FillLoteAlways(row) ==
  IF row.of # Null /\ row.sec # Null
  THEN row.of \o <<"/">> \o row.sec ELSE row.lote

FillLote(row) ==
  IF is_empty(row.lote) /\ row.of # Null /\ row.sec # Null
  THEN row.of \o <<"/">> \o row.sec ELSE row.lote

FillNroOT(row) ==
  IF is_empty(row.nroOT) /\ row.of # Null THEN row.of ELSE row.nroOT

FillRow(row) ==
  Override(row, [codigoDeProducto |-> FillCodigo(row),
                 CantidadEnPrimeraUdM |-> FillCantidad(row),
                 lote |-> FillLote(row),
                 nroOT |-> FillNroOT(row)])

\* faulty variant: the selected rows are filled first, the quality pass
\* runs on the result
EmptyFieldsPassFillFirst(table) ==
  QualityPass([rowid \in DOMAIN table |->
                 IF SelectedForFill(table[rowid]) THEN FillRow(table[rowid])
                 ELSE table[rowid]])

\* the statements of update_empty_bobinas_fields once the table is found:
\* the quality pass, whose own lookup is the same, then the fill of the
\* selected rows
EmptyFieldsPass(table) ==
  LET t == QualityPass(table)
  IN [rowid \in DOMAIN t |->
        IF SelectedForFill(t[rowid]) THEN FillRow(t[rowid]) ELSE t[rowid]]

update_empty_bobinas_fields(table) ==
  IF ~BobinaTableFound(catalog) THEN table ELSE EmptyFieldsPass(table)

\* update_quality_fields with rows whose processing raises: the handler
\* of the loop logs and goes on to the next row; what the other rows
\* wrote is committed when the loop ends
QualityPassWith(table, quality_errors) ==
  [rowid \in DOMAIN table |->
     IF rowid \in quality_errors THEN table[rowid] ELSE UpdateQualityRow(table[rowid])]

\* faulty variant: no commit after the row, the change stays pending
CommitDeferred(st) == st

\* connection.commit(): the pending changes become the persisted table
Commit(st) == [committed |-> st.current, current |-> st.current]

\* connection.rollback(): the pending changes are dropped
Rollback(st) == [committed |-> st.committed, current |-> st.committed]

\* the loop of update_empty_bobinas_fields over the rows its SELECT
\* returned, from the k-th on: UPDATE and commit for each row, rollback
\* when the processing of the row raises; st carries the persisted table
\* and the table as the connection sees it
RECURSIVE FillLoop(_, _, _, _)
FillLoop(st, rows, k, fill_errors) ==
  IF k > Len(rows) THEN st
  ELSE LET rowid == rows[k]
           updated == [st EXCEPT !.current[rowid] = FillRow(st.current[rowid])]
       IN FillLoop(IF rowid \in fill_errors THEN Rollback(updated) ELSE Commit(updated),
                   rows, k + 1, fill_errors)

\* the rowids of the rows with a blank code, in table order
RECURSIVE BlankCodeRows(_, _)
BlankCodeRows(table, rowid) ==
  IF rowid > Len(table) THEN <<>>
  ELSE (IF SelectedForFill(table[rowid]) THEN <<rowid>> ELSE <<>>)
         \o BlankCodeRows(table, rowid + 1)

\* update_empty_bobinas_fields on a table it finds, with rows whose
\* processing raises in either loop
EmptyFieldsPassWith(table, quality_errors, fill_errors) ==
  LET t == QualityPassWith(table, quality_errors)
  IN FillLoop([committed |-> t, current |-> t], BlankCodeRows(t, 1), 1,
              fill_errors).committed

\* get_production_data: both passes, then SELECT * (no OF filter is ever
\* passed by the handlers modelled here)
get_production_data(table) == update_quality_fields(update_empty_bobinas_fields(table))

-----------------------------------------------------------------------------
(* ProductionData.update_row and ProductionTableModel.update_row *)

\* faulty variant: the WHERE clause without "AND sec = ?"
WhereMatchesBobinaOnly(row, bobina_value, sec_value) ==
  bobina_value # Null /\ row.bobina_num = bobina_value

\* WHERE bobina_num = ? AND sec = ?  (in SQL a comparison with NULL is
\* never true)
WhereMatches(row, bobina_value, sec_value) ==
  /\ bobina_value # Null /\ row.bobina_num = bobina_value
  /\ sec_value # Null /\ row.sec = sec_value

\* the columns of the table (PRAGMA table_info)
column_names ==
  {"of", "bobina_num", "sec", "alistamiento", "codprod", "calidad", "obs",
   "gramaje", "diametro", "ancho", "peso", "codigoDeProducto", "lote", "nroOT",
   "CantidadEnPrimeraUdM", "producto", "fecha", "fechaElaboracion",
   "fechaValidezLote"}

\* faulty variant: one unknown column makes the whole SET list invalid
ValidColumnsAllOrNothing(set) ==
  IF DOMAIN set \subseteq column_names THEN set
  ELSE [f \in {} |-> Null]

\* the SET columns that exist in the table, with their values
ValidColumns(set) == [f \in DOMAIN set \cap column_names |-> set[f]]

\* the statement on the rows the WHERE clause selects: rolled back when
\* sqlite raises, False when no row is affected
UpdateAffected(table, valid, affected, sqlite_error) ==
  IF sqlite_error \/ affected = {}
  THEN [ok |-> FALSE, table |-> table]
  ELSE [ok |-> TRUE,
        table |-> [rowid \in DOMAIN table |->
                     IF rowid \in affected THEN Override(table[rowid], valid)
                     ELSE table[rowid]]]

\* faulty variant: True whatever the row count
DbUpdateRowAlwaysOk(table, set, bobina_value, sec_value, sqlite_error) ==
  LET affected == {rowid \in DOMAIN table : WhereMatches(table[rowid], bobina_value, sec_value)}
  IN [ok |-> TRUE,
      table |-> [rowid \in DOMAIN table |->
                   IF rowid \in affected /\ ~sqlite_error
                   THEN Override(table[rowid], set) ELSE table[rowid]]]

\* faulty variant: the statement stays applied when sqlite raises
DbUpdateRowNoRollback(table, set, bobina_value, sec_value, sqlite_error) ==
  LET affected == {rowid \in DOMAIN table : WhereMatches(table[rowid], bobina_value, sec_value)}
  IN [ok |-> ~sqlite_error /\ affected # {},
      table |-> [rowid \in DOMAIN table |->
                   IF rowid \in affected THEN Override(table[rowid], set)
                   ELSE table[rowid]]]

\* update_row with the WHERE fields every caller of the application
\* passes, ['bobina_num', 'sec']: unknown SET columns are dropped, False
\* when none is left, when sqlite raises (the statement is rolled back)
\* and when no row is affected
DbUpdateRow(table, set, bobina_value, sec_value, sqlite_error) ==
  LET valid == ValidColumns(set)
      affected == {rowid \in DOMAIN table : WhereMatches(table[rowid], bobina_value, sec_value)}
  IN IF DOMAIN valid = {}
     THEN [ok |-> FALSE, table |-> table]
     ELSE UpdateAffected(table, valid, affected, sqlite_error)

\* field = ? AND field = ? ... for any list of existing fields
WhereClause(row, where_fields, where_values) ==
  \A i \in DOMAIN where_fields :
    where_values[i] # Null /\ row[where_fields[i]] = where_values[i]

\* ProductionData.update_row as its signature allows it to be called:
\* the table is looked up by its exact name, an unknown WHERE field is a
\* failure
update_row(table, table_name, set, where_fields, where_values, sqlite_error) ==
  IF table_name # catalog
  THEN [ok |-> FALSE, table |-> table]
  ELSE IF \E i \in DOMAIN where_fields : where_fields[i] \notin column_names
  THEN [ok |-> FALSE, table |-> table]
  ELSE IF where_fields = <<"bobina_num", "sec">>
  THEN DbUpdateRow(table, set, where_values[1], where_values[2], sqlite_error)
  ELSE LET valid == ValidColumns(set)
           affected == {rowid \in DOMAIN table :
                          WhereClause(table[rowid], where_fields, where_values)}
       IN IF DOMAIN valid = {}
          THEN [ok |-> FALSE, table |-> table]
          ELSE UpdateAffected(table, valid, affected, sqlite_error)

\* faulty variant: the code column is never sent
UpdateColumnsWithoutCode(row_data) ==
  [calidad |-> row_data.calidad, obs |-> row_data.obs]

\* the columns the table model sends: calidad, obs, and the code unless
\* it is None
UpdateColumns(row_data) ==
  IF row_data.codigoDeProducto # Null
  THEN [calidad |-> row_data.calidad, obs |-> row_data.obs,
        codigoDeProducto |-> row_data.codigoDeProducto]
  ELSE [calidad |-> row_data.calidad, obs |-> row_data.obs]

\* faulty variant: the three fields are replaced in memory whatever the
\* database update returned
ModelUpdateRowMemoryFirst(table, mem, row_index, row_data, sqlite_error) ==
  IF ~(1 <= row_index /\ row_index <= Len(mem)) \/ ~BobinaOrBobinasFound(catalog)
  THEN [ok |-> FALSE, table |-> table, mem |-> mem]
  ELSE LET current_data == mem[row_index]
           result == DbUpdateRow(table, UpdateColumns(row_data),
                                 current_data.bobina_num, current_data.sec, sqlite_error)
       IN [ok |-> result.ok, table |-> result.table,
           mem |-> [mem EXCEPT ![row_index] =
                      Override(@, [calidad |-> row_data.calidad,
                                   obs |-> row_data.obs,
                                   codigoDeProducto |-> row_data.codigoDeProducto])]]

\* ProductionTableModel.update_row: keys from the row in memory; memory
\* follows only a successful database update
ModelUpdateRow(table, mem, row_index, row_data, sqlite_error) ==
  IF ~(1 <= row_index /\ row_index <= Len(mem)) \/ ~BobinaOrBobinasFound(catalog)
  THEN [ok |-> FALSE, table |-> table, mem |-> mem]
  ELSE LET current_data == mem[row_index]
           result == DbUpdateRow(table, UpdateColumns(row_data),
                                 current_data.bobina_num, current_data.sec, sqlite_error)
       IN IF result.ok
          THEN [ok |-> TRUE, table |-> result.table,
                mem |-> [mem EXCEPT ![row_index] =
                           Override(@, [calidad |-> row_data.calidad,
                                        obs |-> row_data.obs,
                                        codigoDeProducto |-> row_data.codigoDeProducto])]]
          ELSE [ok |-> FALSE, table |-> result.table, mem |-> mem]

\* ProductionTableModel.load_data: the rows get_production_data returns
LoadRows(table) == [i \in 1..Len(table) |-> table[i]]

-----------------------------------------------------------------------------
(* Splicing calidad and obs into positions 5-6 and 7-8 of the code *)

\* faulty variant: the tail is taken from index 7, codprod[7:]
SpliceCodeFromSeven(codprod, calidad_val, obs_val) ==
  FirstN(codprod, 4) \o LastN(Zfill(calidad_val, 2), 2) \o LastN(Zfill(obs_val, 2), 2)
    \o SubSeq(codprod, 8, Len(codprod))

\* codprod[:4] + calidad.zfill(2)[-2:] + obs.zfill(2)[-2:] + codprod[8:]
SpliceCode(codprod, calidad_val, obs_val) ==
  FirstN(codprod, 4) \o LastN(Zfill(calidad_val, 2), 2) \o LastN(Zfill(obs_val, 2), 2)
    \o SubSeq(codprod, 9, Len(codprod))

\* _actualizar_codigos_producto_inicial, rows idx..end
RECURSIVE ActualizarCodigos(_, _, _)
ActualizarCodigos(table, mem, idx) ==
  IF idx > Len(mem) THEN [table |-> table, mem |-> mem]
  ELSE LET row == mem[idx]
           codprod == Str(row.codigoDeProducto)
           nuevo_codprod == SpliceCode(codprod, Str(row.calidad), Str(row.obs))
       IN IF Len(codprod) >= 8 /\ codprod # nuevo_codprod
          THEN LET r == ModelUpdateRow(table, mem, idx,
                                       Override(row, [codigoDeProducto |-> nuevo_codprod]), FALSE)
               IN ActualizarCodigos(r.table, r.mem, idx + 1)
          ELSE ActualizarCodigos(table, mem, idx + 1)

-----------------------------------------------------------------------------
(* ProductionSortFilterProxyModel *)

\* filterAcceptsRow (OF values are digit strings: lower() leaves them as
\* they are)
filterAcceptsRow(filter, row) ==
  IF filter = <<>> THEN TRUE
  ELSE row.of # Null /\ IsSubstring(filter, row.of)

\* the source rows the proxy shows, in source order (no column is sorted)
RECURSIVE VisibleFrom(_, _, _)
VisibleFrom(mem, filter, i) ==
  IF i > Len(mem) THEN <<>>
  ELSE (IF filterAcceptsRow(filter, mem[i]) THEN <<i>> ELSE <<>>)
         \o VisibleFrom(mem, filter, i + 1)

\* faulty variant: every row of the memory, whatever the filter
VisibleRowsUnfiltered(mem, filter) == [i \in 1..Len(mem) |-> i]

VisibleRows(mem, filter) == VisibleFrom(mem, filter, 1)

-----------------------------------------------------------------------------
(* ProductionControlWidget.cambiar_calidad_obs: the Bulk Recode *)

\* text.split(' ')[0]
RECURSIVE FirstToken(_)
FirstToken(text) ==
  IF text = <<>> \/ Head(text) = " " THEN <<>> ELSE <<Head(text)>> \o FirstToken(Tail(text))

\* currentText().strip(), then the first token ('' for an empty text)
ComboValue(text) == FirstToken(Strip(text))

\* faulty variant: calidad and obs set, the code left as it is
RecodeRowDataNoSplice(row, calidad_val, obs_val) ==
  Override(row, [calidad |-> calidad_val, obs |-> obs_val])

\* the copy of the row with calidad, obs and the spliced code
RecodeRowData(row, calidad_val, obs_val) ==
  LET codprod == Str(row.codigoDeProducto)
  IN Override(row, [calidad |-> calidad_val,
                    obs |-> obs_val,
                    codigoDeProducto |->
                      IF Len(codprod) >= 8 THEN SpliceCode(codprod, calidad_val, obs_val)
                      ELSE row.codigoDeProducto])

\* the progress dialog, with its Cancel button, is shown for more rows
\* than this
ProgressMinRows == 10

\* the loop over the visible rows, from proxy row k on; st carries the
\* table, the rows in memory, the two counters and the source rows whose
\* update_row returned False.  With the progress dialog shown,
\* wasCanceled is asked at the top of every iteration; cancel_at is the
\* number of rows gone through when it first answers True
RECURSIVE RecodeLoop(_, _, _, _, _, _, _)
RecodeLoop(st, vis, k, calidad_val, obs_val, sqlite_errors, cancel_at) ==
  IF k > Len(vis) THEN st
  ELSE IF Len(vis) > ProgressMinRows /\ k - 1 = cancel_at THEN st
  ELSE LET src_row == vis[k]
           row_data == RecodeRowData(st.mem[src_row], calidad_val, obs_val)
           r == ModelUpdateRow(st.table, st.mem, src_row, row_data, src_row \in sqlite_errors)
       IN RecodeLoop([table |-> r.table,
                      mem |-> r.mem,
                      actualizados |-> st.actualizados + (IF r.ok THEN 1 ELSE 0),
                      errores |-> st.errores + (IF r.ok THEN 0 ELSE 1),
                      failed |-> IF r.ok THEN st.failed ELSE st.failed \cup {src_row}],
                     vis, k + 1, calidad_val, obs_val, sqlite_errors, cancel_at)

-----------------------------------------------------------------------------
(* ProductionTableModel.delete_row, setData and add_row *)

\* faulty variant: DELETE ... WHERE bobina_num = ?
DbDeleteRowByBobina(table, bobina, sec, sqlite_error) ==
  LET Kept(row) == row.bobina_num # bobina
  IN IF sqlite_error THEN [ok |-> FALSE, table |-> table]
     ELSE [ok |-> SelectSeq(table, Kept) # table, table |-> SelectSeq(table, Kept)]

\* DELETE FROM table WHERE bobina_num = ? AND sec = ?; True when
\* rowcount > 0
DbDeleteRow(table, bobina, sec, sqlite_error) ==
  LET Kept(row) == ~(row.bobina_num = bobina /\ row.sec = sec)
  IN IF sqlite_error THEN [ok |-> FALSE, table |-> table]
     ELSE [ok |-> SelectSeq(table, Kept) # table, table |-> SelectSeq(table, Kept)]

\* "not value" of Python for a cell: None or ''
Falsy(v) == v = Null \/ v = <<>>

\* the sequence without its element at index
RemoveAt(seq, index) == SubSeq(seq, 1, index - 1) \o SubSeq(seq, index + 1, Len(seq))

\* ProductionTableModel.delete_row: the key from the row in memory; the
\* row leaves the memory only after the database delete returned True
ModelDeleteRow(table, mem, row_index, sqlite_error) ==
  IF ~(1 <= row_index /\ row_index <= Len(mem))
  THEN [ok |-> FALSE, table |-> table, mem |-> mem]
  ELSE LET bobina_num == mem[row_index].bobina_num
           sec == mem[row_index].sec
       IN IF Falsy(bobina_num) \/ Falsy(sec)
          THEN [ok |-> FALSE, table |-> table, mem |-> mem]
          ELSE LET success == DbDeleteRow(table, bobina_num, sec, sqlite_error)
               IN IF ~success.ok
                  THEN [ok |-> FALSE, table |-> success.table, mem |-> mem]
                  ELSE [ok |-> TRUE, table |-> success.table,
                        mem |-> RemoveAt(mem, row_index)]

\* the largest element of a non-empty set of numbers
Max(S) == CHOOSE x \in S : \A y \in S : y <= x

\* delete_selected_rows: the loop over the source rows in descending
\* order; st carries the table, the memory and the rows that left it
RECURSIVE DeleteLoop(_, _, _)
DeleteLoop(st, todo, sqlite_errors) ==
  IF todo = {} THEN st
  ELSE LET row_index == Max(todo)
           r == ModelDeleteRow(st.table, st.mem, row_index, row_index \in sqlite_errors)
       IN DeleteLoop([table |-> r.table, mem |-> r.mem,
                      removed |-> IF r.ok THEN st.removed \cup {row_index} ELSE st.removed],
                     todo \ {row_index}, sqlite_errors)

\* the names bound by the import statements of the module
ModuleImports ==
  {"logging", "os", "sqlite3", "datetime", "timedelta", "List", "Dict", "Any",
   "Optional", "Tuple"}

\* the try block of _format_date on a text: dd/mm/yyyy as it is, the part
\* before a blank parsed with the four formats, else the text itself
FormatDateText(date_value) ==
  CASE date_value.k = "dmy" -> date_value
    [] date_value.k \in {"iso", "isotime", "ymd", "dashed"} -> Dmy(date_value.d)
    [] OTHER -> date_value

\* _format_date of a stored date: None for None and ''; on a text the
\* try block starts with re.match, and when re is no name of the module
\* the NameError is caught by "except Exception", which returns the
\* value as it came
_format_date(date_value) ==
  CASE date_value.k \in {"null", "empty"} -> NullDate
    [] "re" \notin ModuleImports -> date_value
    [] OTHER -> FormatDateText(date_value)

\* _format_date of the text of a column that holds no date: None for None
\* and '', else the text itself, which no date format parses
TextAsDate(text) ==
  IF Falsy(text) THEN NullDate ELSE [k |-> "bad", d |-> 0]

\* what setData sends as SET list.  db_columns is column_names without
\* 'obs' and db_row_data the first len(db_columns) cells of the row, so
\* that every column shown after 'obs' is paired with the cell of the
\* column shown before it.  The grid shows of, bobina_num, sec, ancho,
\* peso, gramaje, diametro, fecha, codprod, alistamiento, calidad, obs,
\* and then the other columns in the order of the table, taken here as
\* lote, nroOT, codigoDeProducto, CantidadEnPrimeraUdM, producto,
\* fechaElaboracion, fechaValidezLote
SetDataColumns(row) ==
  [of |-> row.of, bobina_num |-> row.bobina_num, sec |-> row.sec,
   ancho |-> row.ancho, peso |-> row.peso, gramaje |-> row.gramaje,
   diametro |-> row.diametro, fecha |-> row.fecha, codprod |-> row.codprod,
   alistamiento |-> row.alistamiento, calidad |-> row.calidad,
   lote |-> row.obs, nroOT |-> row.lote, codigoDeProducto |-> row.nroOT,
   CantidadEnPrimeraUdM |-> row.codigoDeProducto,
   producto |-> row.CantidadEnPrimeraUdM,
   fechaElaboracion |-> TextAsDate(row.producto),
   fechaValidezLote |-> _format_date(row.fechaElaboracion)]

\* ProductionTableModel.setData: the cell in memory first, then update_row
\* keyed by the row in memory as it is after the edit; the result of
\* update_row is not looked at
ModelSetData(table, mem, row_index, col, value, sqlite_error) ==
  LET mem2 == [mem EXCEPT ![row_index] = Override(@, [c \in {col} |-> value])]
      res == update_row(table, catalog, SetDataColumns(mem2[row_index]),
                        <<"bobina_num", "sec">>,
                        <<mem2[row_index].bobina_num, mem2[row_index].sec>>,
                        sqlite_error)
  IN [ok |-> TRUE, table |-> res.table, mem |-> mem2, written |-> res.ok]

\* insert_row: the dates go through _format_date
DbInsertRow(table, row, sqlite_error) ==
  IF sqlite_error THEN [ok |-> FALSE, table |-> table]
  ELSE [ok |-> TRUE,
        table |-> Append(table,
                         Override(row, [fechaElaboracion |-> _format_date(row.fechaElaboracion),
                                        fechaValidezLote |-> _format_date(row.fechaValidezLote)]))]

\* ProductionTableModel.add_row: every column but 'obs' is inserted; the
\* row enters the memory only when the insert went through
ModelAddRow(table, mem, row_data, sqlite_error) ==
  LET success == DbInsertRow(table, Override(row_data, [obs |-> Null]), sqlite_error)
  IN IF ~success.ok
     THEN [ok |-> FALSE, table |-> success.table, mem |-> mem]
     ELSE [ok |-> TRUE, table |-> success.table, mem |-> Append(mem, row_data)]

\* str(x): 'None' for None
PyStr(v) == IF v = Null THEN <<"N", "o", "n", "e">> ELSE v

\* _check_duplicate_bobina: the pair is looked for in the rows in memory
_check_duplicate_bobina(mem, row_data) ==
  /\ row_data.bobina_num # Null /\ row_data.sec # Null
  /\ \E i \in DOMAIN mem :
       /\ PyStr(mem[i].bobina_num) = PyStr(row_data.bobina_num)
       /\ PyStr(mem[i].sec) = PyStr(row_data.sec)

-----------------------------------------------------------------------------
(* State *)

\* what the last handler did: the table and the memory it started from,
\* the table at its intermediate points, its inputs and its report
NoLast ==
  [op |-> "init", pre |-> <<>>, premem |-> <<>>, mid |-> <<>>, mid2 |-> <<>>,
   calidad_val |-> <<>>, obs_val |-> <<>>, vis |-> <<>>, failed |-> {},
   actualizados |-> 0, errores |-> 0, row_index |-> 0, ok |-> TRUE, msg |-> "none",
   runs |-> 0, table_name |-> <<>>, set |-> <<>>, where_fields |-> <<>>,
   where_values |-> <<>>, sqlite_error |-> FALSE, midmem |-> <<>>,
   selected |-> {}, removed |-> {}, cancel_at |-> 0,
   quality_errors |-> {}, fill_errors |-> {}, of |-> <<>>, data |-> <<>>,
   lines |-> <<>>, col |-> "", value |-> <<>>, row_data |-> <<>>,
   visited |-> <<>>, sort_column |-> "none", sort_order |-> "asc"]

\* texts of the two editable combo boxes
CalidadTexts == {<<>>, <<"0", "5", " ", "-", " ", "B">>}
ObsTexts == {<<>>, <<" ", "0", "2", " ", "-", " ", "R">>}

\* texts of the OF filter box
FilterTexts == {<<>>, <<"1", "2">>, <<"3">>}

\* values chosen in the edit dialog
EditCalidad == {<<"0", "1">>, <<"0", "5">>}
EditObs == {<<"0", "2">>}

-----------------------------------------------------------------------------
(* The tables the program starts from.  In each of them every row whose     *)
(* code has 8 characters or more carries calidad at code[4:6] and obs at    *)
(* code[6:8], and no two rows share (bobina_num, sec).                      *)

\* a row that both passes leave as it is
BaseRow ==
  [of |-> <<"1", "2">>, bobina_num |-> <<"1", "0", "0">>, sec |-> <<"1">>,
   alistamiento |-> <<"A", "B">>, codprod |-> <<"0", "1">>,
   calidad |-> <<"0", "1">>, obs |-> <<"0", "0">>,
   gramaje |-> Num(12000), diametro |-> Num(12000), ancho |-> Num(8250),
   peso |-> Num(12550),
   codigoDeProducto |-> <<"A", "B", "0", "1", "0", "1", "0", "0", "0", "1", "2", "0",
                          "0", "1", "2", "0", "0", "0", "8", "2", "5", "0", "0">>,
   lote |-> <<"1", "2", "/", "1">>, nroOT |-> <<"1", "2">>,
   CantidadEnPrimeraUdM |-> <<"1", "2", "5", ",", "5", "0">>,
   producto |-> <<"1">>,
   fecha |-> Dmy(Hoy - 10), fechaElaboracion |-> Dmy(Hoy - 10),
   fechaValidezLote |-> Dmy(Hoy - 10 + ValidezDays)]

\* rows for the recode: codes of 23, 8, 9 and 4 characters, a code to be
\* composed, an OF that both filter texts match, a NULL OF
RecodePools ==
  << << BaseRow,
        Override(BaseRow, [sec |-> <<"2">>, codprod |-> <<"0", "3">>,
                           calidad |-> <<"0", "5">>, obs |-> <<"0", "2">>,
                           codigoDeProducto |-> <<"A", "B", "0", "3", "0", "5", "0", "2">>]),
        Override(BaseRow, [bobina_num |-> <<"1", "0", "1">>, of |-> <<"3">>,
                           codprod |-> <<"2">>, obs |-> <<"0", "2">>,
                           codigoDeProducto |-> <<"A", "B", "0", "2">>]) >>,
     << Override(BaseRow, [of |-> <<"3">>, codprod |-> <<"0", "3">>,
                           codigoDeProducto |-> <<"A", "B", "0", "3", "0", "1", "0", "0", "9">>]),
        Override(BaseRow, [sec |-> <<"2">>, of |-> <<"3", "1", "2">>,
                           codprod |-> <<"2">>, obs |-> <<"0", "2">>,
                           codigoDeProducto |-> <<"A", "B", "0", "2">>]),
        Override(BaseRow, [bobina_num |-> <<"1", "0", "1">>, of |-> Null,
                           codigoDeProducto |-> <<"X", "Y", "0", "1", "0", "1", "0", "0", "7">>]) >>,
     << Override(BaseRow, [of |-> <<"3", "1", "2">>, codprod |-> <<"1">>,
                           calidad |-> Null, obs |-> Null, codigoDeProducto |-> Null]),
        Override(BaseRow, [sec |-> <<"2">>, codprod |-> <<"3">>,
                           calidad |-> <<"0", "5">>, obs |-> <<"0", "2">>,
                           codigoDeProducto |-> <<>>]),
        Override(BaseRow, [bobina_num |-> <<"1", "0", "1">>, of |-> <<"3">>]) >> >>

RecodeTables ==
  {SubSeq(RecodePools[p], 1, n) : p \in DOMAIN RecodePools, n \in 1..MaxRows}

\* single rows for the normalization pass: blank and filled fill-if-blank
\* fields, every kind of peso and fecha, NULL of and sec
NormRows ==
  {Override(BaseRow, [codigoDeProducto |-> c, lote |-> l, nroOT |-> n, peso |-> p,
                      of |-> o, sec |-> s, fecha |-> f,
                      CantidadEnPrimeraUdM |-> Null,
                      fechaElaboracion |-> NullDate, fechaValidezLote |-> NullDate]) :
     c \in {Null, BaseRow.codigoDeProducto},
     l \in {Null, <<" ">>, <<"L", "9">>},
     n \in {Null, <<"7">>},
     p \in {NullNum, Num(12550), TextNum},
     o \in {Null, <<"1", "2">>},
     s \in {Null, <<"1">>},
     f \in {NullDate, [k |-> "empty", d |-> 0], [k |-> "iso", d |-> Hoy - 3],
            [k |-> "bad", d |-> 0]}}

\* codprod values for the deriver, on a row with nothing derived yet
DeriverInputs ==
  {Null, <<>>, <<"0", "0">>, <<"1">>, <<"0", "1">>, <<"2">>, <<"3">>, <<"0", "3">>,
   <<"4">>, <<"5">>, <<"6">>, <<"7">>, <<"9">>, <<"1", "0">>, <<" ", "3", " ">>,
   <<"0", "0", "6">>}

DeriverRows ==
  {Override(BaseRow, [codprod |-> c, calidad |-> Null, obs |-> Null,
                      codigoDeProducto |-> Null, producto |-> Null]) :
     c \in DeriverInputs}

\* the tables the pass is run on
PassTables == RecodeTables \cup {<<row>> : row \in NormRows \cup DeriverRows}

\* the tables the application is started on: the recode tables, a row
\* with a NULL sec, a row with a NULL of and a code to be composed
AppTables ==
  RecodeTables
    \cup {<<Override(BaseRow, [sec |-> Null])>>,
          <<Override(BaseRow, [of |-> Null, codigoDeProducto |-> Null, lote |-> Null,
                               nroOT |-> Null, codprod |-> <<"3">>,
                               calidad |-> Null, obs |-> Null, fecha |-> NullDate,
                               fechaElaboracion |-> NullDate,
                               fechaValidezLote |-> NullDate])>>}

Init ==
  /\ db \in AppTables
  /\ running = FALSE
  /\ data_rows = <<>>
  /\ of_filter = <<>>
  /\ catalog = Bobina
  /\ last = NoLast

-----------------------------------------------------------------------------
(* Handlers *)

\* MainWindow construction builds the production widget, whose
\* load_table_data runs load_data with no filter text and then
\* _actualizar_codigos_producto_inicial
Startup ==
  LET loaded == get_production_data(db)
      fixed == ActualizarCodigos(loaded, LoadRows(loaded), 1)
  IN /\ running' = TRUE
     /\ of_filter' = <<>>
     /\ UNCHANGED catalog
     /\ IF LoadTableFound(catalog, SelectorText(catalog))
        THEN /\ db' = fixed.table
             /\ data_rows' = fixed.mem
             /\ last' = Override(NoLast, [op |-> "startup", pre |-> db, premem |-> data_rows,
                                          mid |-> update_empty_bobinas_fields(db),
                                          mid2 |-> loaded])
        ELSE /\ UNCHANGED <<db, data_rows>>
             /\ last' = Override(NoLast, [op |-> "startup", pre |-> db, premem |-> data_rows,
                                          mid |-> db, mid2 |-> db, ok |-> FALSE,
                                          msg |-> "Error de carga"])

\* one run of the Bulk Normalization Pass on the table
Pass ==
  /\ db' = update_empty_bobinas_fields(db)
  /\ last' = Override(NoLast, [op |-> "pass", pre |-> db, premem |-> data_rows,
                               runs |-> IF last.op = "pass" THEN 2 ELSE 1])
  /\ UNCHANGED <<running, data_rows, of_filter, catalog>>

\* LoginDialog after a successful login: update_empty_bobinas_fields; the
\* reload is skipped, the main window has no attribute production_widget
Login == running /\ Pass

\* typing in the OF filter box: apply_filter
SetOfFilter(text) ==
  /\ running
  /\ text # of_filter
  /\ of_filter' = text
  /\ last' = Override(NoLast, [op |-> "filter"])
  /\ UNCHANGED <<db, running, data_rows, catalog>>

\* the Procesar button: cambiar_calidad_obs
CambiarCalidadObs(calidad_text, obs_text, sqlite_errors, cancel_at) ==
  LET calidad_val == ComboValue(calidad_text)
      obs_val == ComboValue(obs_text)
      vis == VisibleRows(data_rows, of_filter)
      base == Override(NoLast, [op |-> "recode", pre |-> db, premem |-> data_rows,
                                calidad_val |-> calidad_val, obs_val |-> obs_val])
  IN /\ running
     /\ IF calidad_val = <<>> \/ obs_val = <<>>
        THEN /\ last' = Override(base, [msg |-> "Valores incompletos"])
             /\ UNCHANGED <<db, data_rows>>
        ELSE IF Len(vis) = 0
        THEN /\ last' = Override(base, [msg |-> "Sin datos"])
             /\ UNCHANGED <<db, data_rows>>
        ELSE LET st == RecodeLoop([table |-> db, mem |-> data_rows, actualizados |-> 0,
                                   errores |-> 0, failed |-> {}],
                                  vis, 1, calidad_val, obs_val, sqlite_errors, cancel_at)
             IN /\ db' = st.table
                /\ data_rows' = st.mem
                /\ last' = Override(base, [vis |-> vis, failed |-> st.failed,
                                           cancel_at |-> cancel_at,
                                           actualizados |-> st.actualizados,
                                           errores |-> st.errores,
                                           msg |-> IF st.errores = 0 THEN "Cambios aplicados"
                                                   ELSE "Cambios aplicados parcialmente"])
     /\ UNCHANGED <<running, of_filter, catalog>>

\* what get_row_data returns for the three columns update_row uses: the
\* combo values, and the code box, blanked when a trigger field changed
DialogRowData(row, calidad, obs, blanked) ==
  Override(row, [calidad |-> calidad, obs |-> obs,
                 codigoDeProducto |-> IF blanked THEN <<>> ELSE Str(row.codigoDeProducto)])

\* show_edit_row_dialog accepted on the k-th visible row: update_row, and
\* on success load_data
EditRow(k, calidad, obs, blanked, sqlite_error) ==
  LET vis == VisibleRows(data_rows, of_filter)
  IN /\ running
     /\ k \in 1..Len(vis)
     /\ LET row_index == vis[k]
            new_row_data == DialogRowData(data_rows[row_index], calidad, obs, blanked)
            r == ModelUpdateRow(db, data_rows, row_index, new_row_data, sqlite_error)
            loaded == get_production_data(r.table)
            base == Override(NoLast, [op |-> "edit", pre |-> db, premem |-> data_rows,
                                      calidad_val |-> calidad, obs_val |-> obs,
                                      row_index |-> row_index, ok |-> r.ok,
                                      mid |-> r.table])
        IN IF r.ok
           THEN /\ db' = loaded
                /\ data_rows' = LoadRows(loaded)
                /\ last' = Override(base, [msg |-> "Registro Actualizado"])
           ELSE /\ db' = r.table
                /\ data_rows' = r.mem
                /\ last' = Override(base, [msg |-> "Error"])
     /\ UNCHANGED <<running, of_filter, catalog>>

\* delete_selected_rows confirmed, with the source rows of the selection:
\* delete_row on each, from the last to the first, then load_data
DeleteSelectedRows(selected, sqlite_errors) ==
  LET st == DeleteLoop([table |-> db, mem |-> data_rows, removed |-> {}],
                       selected, sqlite_errors)
      loaded == get_production_data(st.table)
  IN /\ running
     /\ selected # {}
     /\ db' = loaded
     /\ data_rows' = LoadRows(loaded)
     /\ last' = Override(NoLast, [op |-> "delete", pre |-> db, premem |-> data_rows,
                                  mid |-> st.table, midmem |-> st.mem,
                                  selected |-> selected, removed |-> st.removed,
                                  failed |-> sqlite_errors \cap selected])
     /\ UNCHANGED <<running, of_filter, catalog>>

\* a cell of the k-th visible row edited in the grid: the proxy hands
\* setData to the table model
SetData(k, col, value, sqlite_error) ==
  LET vis == VisibleRows(data_rows, of_filter)
  IN /\ running
     /\ k \in 1..Len(vis)
     /\ LET r == ModelSetData(db, data_rows, vis[k], col, value, sqlite_error)
        IN /\ db' = r.table
           /\ data_rows' = r.mem
           /\ last' = Override(NoLast, [op |-> "setdata", pre |-> db, premem |-> data_rows,
                                        row_index |-> vis[k], col |-> col, value |-> value,
                                        ok |-> r.written, sqlite_error |-> sqlite_error])
     /\ UNCHANGED <<running, of_filter, catalog>>

\* str(float) of a number of the model (hundredths)
FloatRepr(num) ==
  LET a == IF num.v < 0 THEN -num.v ELSE num.v
      dec == IF a % 10 = 0 THEN <<DigitChar((a % 100) \div 10)>>
             ELSE Zfill(Digits(a % 100), 2)
  IN (IF num.v < 0 THEN <<"-">> ELSE <<>>) \o Digits(a \div 100) \o <<".">> \o dec

\* what get_row_data returns for a new record: the three spin boxes as
\* the user set them, the combos and spin boxes of the other columns as
\* filled in, the line edits empty, CantidadEnPrimeraUdM following peso,
\* the date edits on today
NewRowData(of, bobina_num, sec) ==
  [of |-> IntStr(of), bobina_num |-> IntStr(bobina_num), sec |-> IntStr(sec),
   alistamiento |-> <<"A", "B">>, codprod |-> <<"0", "3">>,
   calidad |-> <<"0", "1">>, obs |-> <<"0", "0">>,
   gramaje |-> Num(12000), diametro |-> Num(12000), ancho |-> Num(8250),
   peso |-> Num(12550),
   codigoDeProducto |-> <<>>, lote |-> <<>>, nroOT |-> <<>>,
   CantidadEnPrimeraUdM |-> FloatRepr(Num(12550)),
   producto |-> <<>>,
   fecha |-> Dmy(Hoy), fechaElaboracion |-> Dmy(Hoy), fechaValidezLote |-> Dmy(Hoy)]

\* show_add_row_dialog accepted: add_row, the normalization pass, load_data;
\* nothing looks at what add_row returned
AddRow(row_data, sqlite_error) ==
  LET r == ModelAddRow(db, data_rows, row_data, sqlite_error)
      filled == update_empty_bobinas_fields(r.table)
      loaded == get_production_data(filled)
  IN /\ running
     /\ Len(db) < MaxTableRows
     /\ db' = loaded
     /\ data_rows' = LoadRows(loaded)
     /\ last' = Override(NoLast, [op |-> "add", pre |-> db, premem |-> data_rows,
                                  mid |-> r.table, midmem |-> r.mem, ok |-> r.ok,
                                  row_data |-> row_data, sqlite_error |-> sqlite_error])
     /\ UNCHANGED <<running, of_filter, catalog>>

\* a QSpinBox set from a cell: int(value), 0 when int() raises
SpinValue(v) ==
  IF v # Null /\ v # <<>> /\ \A i \in 1..Len(v) : \E d \in 0..9 : DigitChar(d) = v[i]
  THEN LET t == LStripChar(v, "0") IN IF t = <<>> THEN <<"0">> ELSE t
  ELSE <<"0">>

\* a QDateEdit set from a cell and read back as dd/MM/yyyy: today when the
\* cell is empty or holds no date
DateEditValue(date_value) ==
  IF date_value.k \in {"iso", "dmy"} THEN Dmy(date_value.d) ELSE Dmy(Hoy)

\* a QDoubleSpinBox set from a cell: float(value), 0.0 when it raises
DoubleSpinValue(num) == IF num.k = "num" THEN num ELSE Num(0)

\* what get_row_data returns for the copy of a row when the user changes
\* the key only: the combos stay on the row's codes, the line edits on its
\* texts; CantidadEnPrimeraUdM holds a text with a comma, which float()
\* rejects
CopyRowData(row, bobina_num, sec) ==
  [of |-> SpinValue(row.of), bobina_num |-> IntStr(bobina_num), sec |-> IntStr(sec),
   alistamiento |-> Str(row.alistamiento), codprod |-> Str(row.codprod),
   calidad |-> Str(row.calidad), obs |-> Str(row.obs),
   gramaje |-> DoubleSpinValue(row.gramaje), diametro |-> DoubleSpinValue(row.diametro),
   ancho |-> DoubleSpinValue(row.ancho), peso |-> DoubleSpinValue(row.peso),
   codigoDeProducto |-> Str(row.codigoDeProducto), lote |-> Str(row.lote),
   nroOT |-> Str(row.nroOT),
   CantidadEnPrimeraUdM |-> FloatRepr(Num(0)),
   producto |-> Str(row.producto),
   fecha |-> DateEditValue(row.fecha),
   fechaElaboracion |-> DateEditValue(row.fechaElaboracion),
   fechaValidezLote |-> DateEditValue(row.fechaValidezLote)]

\* show_copy_row_dialog accepted on the k-th visible row
CopyRow(k, bobina_num, sec, sqlite_error) ==
  LET vis == VisibleRows(data_rows, of_filter)
  IN /\ running
     /\ k \in 1..Len(vis)
     /\ Len(db) < MaxTableRows
     /\ LET row_data == data_rows[vis[k]]
            new_row_data == CopyRowData(row_data, bobina_num, sec)
            r == ModelAddRow(db, data_rows, new_row_data, sqlite_error)
            loaded == get_production_data(r.table)
            base == Override(NoLast, [op |-> "copy", pre |-> db, premem |-> data_rows,
                                      row_index |-> vis[k], row_data |-> new_row_data,
                                      sqlite_error |-> sqlite_error])
        IN IF /\ PyStr(row_data.bobina_num) = PyStr(new_row_data.bobina_num)
              /\ PyStr(row_data.sec) = PyStr(new_row_data.sec)
           THEN /\ last' = Override(base, [msg |-> "Datos Invalidos", ok |-> FALSE,
                                           mid |-> db, midmem |-> data_rows])
                /\ UNCHANGED <<db, data_rows>>
           ELSE IF _check_duplicate_bobina(data_rows, new_row_data)
           THEN /\ last' = Override(base, [msg |-> "Registro Duplicado", ok |-> FALSE,
                                           mid |-> db, midmem |-> data_rows])
                /\ UNCHANGED <<db, data_rows>>
           ELSE /\ db' = loaded
                /\ data_rows' = LoadRows(loaded)
                /\ last' = Override(base, [msg |-> "Registro Copiado", ok |-> r.ok,
                                           mid |-> r.table, midmem |-> r.mem])
     /\ UNCHANGED <<running, of_filter, catalog>>

Next ==
  \/ Startup
  \/ Login
  \/ \E text \in FilterTexts : SetOfFilter(text)
  \/ \E calidad_text \in CalidadTexts, obs_text \in ObsTexts,
        sqlite_errors \in SUBSET {VisibleRows(data_rows, of_filter)[k] :
                                    k \in 1..Len(VisibleRows(data_rows, of_filter))} :
          CambiarCalidadObs(calidad_text, obs_text, sqlite_errors, 0)
  \/ \E k \in 1..Len(data_rows), calidad \in EditCalidad, obs \in EditObs,
        blanked \in BOOLEAN, sqlite_error \in BOOLEAN :
          EditRow(k, calidad, obs, blanked, sqlite_error)

Spec == Init /\ [][Next]_vars

\* the pass alone, on any of the tables
PassNext == Pass

PassInit ==
  /\ db \in PassTables
  /\ running = FALSE
  /\ data_rows = <<>>
  /\ of_filter = <<>>
  /\ catalog = Bobina
  /\ last = NoLast

PassSpec == PassInit /\ [][PassNext]_vars

-----------------------------------------------------------------------------
(* ProductionOFDetailWidget.export_data and ProductionExporter.export_to_txt *)

\* the value of a text of digits
RECURSIVE DigitsValue(_)
DigitsValue(text) ==
  IF text = <<>> THEN 0
  ELSE 10 * DigitsValue(SubSeq(text, 1, Len(text) - 1))
         + (CHOOSE d \in 0..9 : DigitChar(d) = text[Len(text)])

AllDigits(text) == \A i \in 1..Len(text) : \E d \in 0..9 : DigitChar(d) = text[i]

\* float(text) for texts with at most two decimals, in hundredths:
\* digits, or digits '.' digits; anything else raises ValueError
FloatOfText(text) ==
  LET t == Strip(text)
      dot == IF \E i \in 1..Len(t) : t[i] = "." THEN CHOOSE i \in 1..Len(t) : t[i] = "." ELSE 0
      whole == IF dot = 0 THEN t ELSE SubSeq(t, 1, dot - 1)
      frac == IF dot = 0 THEN <<>> ELSE SubSeq(t, dot + 1, Len(t))
  IN IF AllDigits(whole) /\ AllDigits(frac) /\ Len(whole) + Len(frac) > 0 /\ Len(frac) <= 2
     THEN Num(100 * DigitsValue(whole) + DigitsValue(frac \o Zeros(2 - Len(frac))))
     ELSE TextNum

\* col.lower() of the columns of the table
LowerColumn ==
  [of |-> "of", bobina_num |-> "bobina_num", sec |-> "sec", ancho |-> "ancho",
   peso |-> "peso", gramaje |-> "gramaje", diametro |-> "diametro", fecha |-> "fecha",
   codprod |-> "codprod", alistamiento |-> "alistamiento", calidad |-> "calidad",
   obs |-> "obs", lote |-> "lote", nroOT |-> "nroot",
   codigoDeProducto |-> "codigodeproducto",
   CantidadEnPrimeraUdM |-> "cantidadenprimeraudm", producto |-> "producto",
   fechaElaboracion |-> "fechaelaboracion", fechaValidezLote |-> "fechavalidezlote"]

\* the dictionary export_data builds from a row: record[col.lower()]
RecordOf(row) ==
  [key \in {LowerColumn[col] : col \in DOMAIN row} |->
     row[CHOOSE col \in DOMAIN row : LowerColumn[col] = key]]

\* the integer a key column holds (-1 for NULL, which sorts first)
KeyInt(v) == IF v = Null \/ ~AllDigits(v) \/ v = <<>> THEN -1 ELSE DigitsValue(v)

\* row a comes before row b in ORDER BY sec, bobina_num
OrderedBefore(a, b) ==
  \/ KeyInt(a.sec) < KeyInt(b.sec)
  \/ KeyInt(a.sec) = KeyInt(b.sec) /\ KeyInt(a.bobina_num) <= KeyInt(b.bobina_num)

\* seq with row inserted after the last element that is ordered before it
RECURSIVE InsertOrdered(_, _)
InsertOrdered(seq, row) ==
  IF seq = <<>> THEN <<row>>
  ELSE IF OrderedBefore(seq[Len(seq)], row) THEN Append(seq, row)
  ELSE Append(InsertOrdered(SubSeq(seq, 1, Len(seq) - 1), row), seq[Len(seq)])

\* SELECT * FROM table WHERE OF = ? ORDER BY sec, bobina_num
RECURSIVE SelectOf(_, _, _)
SelectOf(table, of, n) ==
  IF n = 0 THEN <<>>
  ELSE IF table[n].of = of THEN InsertOrdered(SelectOf(table, of, n - 1), table[n])
  ELSE SelectOf(table, of, n - 1)

\* the quantity of the line: float(record.get('cantidadenprimeramudm',
\* record.get('peso', 0)) or 0) with two decimals and a comma, "0,00" when
\* float() raises
cantidad_primera(record) ==
  IF "cantidadenprimeramudm" \in DOMAIN record
  THEN LET value == record["cantidadenprimeramudm"]
       IN IF value = Null \/ value = <<>> THEN <<"0", ",", "0", "0">>
          ELSE peso_formateado(FloatOfText(value))
  ELSE IF "peso" \in DOMAIN record
  THEN LET value == record["peso"]
       IN IF value.k = "null" THEN <<"0", ",", "0", "0">> ELSE peso_formateado(value)
  ELSE <<"0", ",", "0", "0">>

\* the fields of the line written for a record that identify the record
\* and carry its quantity
ExportLine(record) ==
  [bobina_sec |-> Str(record["bobina_num"]) \o <<"/">> \o Str(record["sec"]),
   codigo_producto |-> Str(record["codigodeproducto"]),
   cantidad_primera |-> cantidad_primera(record)]

\* f.write of one line for each record of data
export_to_txt(data) == [i \in 1..Len(data) |-> ExportLine(data[i])]

\* the Export button of the OF detail page with the OF of selected
ExportData(of) ==
  LET rows == SelectOf(db, of, Len(db))
      data == [i \in 1..Len(rows) |-> RecordOf(rows[i])]
  IN /\ last' = Override(NoLast, [op |-> "export", pre |-> db, of |-> of, data |-> rows,
                                  lines |-> export_to_txt(data)])
     /\ UNCHANGED <<db, running, data_rows, of_filter, catalog>>

\* rolls of the OFs 12 and 3 with a peso and a first-unit quantity as the
\* production system or the pass left them
ExportRows ==
  {Override(BaseRow, [of |-> o, sec |-> q[1], peso |-> q[2], CantidadEnPrimeraUdM |-> q[3]]) :
     o \in {<<"1", "2">>, <<"3">>},
     q \in {<<(<<"1">>), Num(12550), Null>>,
             <<(<<"2">>), Num(12550), (<<"1", "0", "0", ".", "0">>)>>,
             <<(<<"3">>), NullNum, Null>>,
             <<(<<"4">>), TextNum, Null>>,
             <<(<<"5">>), Num(790), (<<"7", ",", "9", "0">>)>>}}

\* the tables the page is opened on
ExportTables == {<<a>> : a \in ExportRows} \cup {<<a, b>> : a, b \in ExportRows}

ExportNext == \E of \in {<<"1", "2">>, <<"3">>} : ExportData(of)

ExportInit ==
  /\ db \in ExportTables
  /\ running = FALSE
  /\ data_rows = <<>>
  /\ of_filter = <<>>
  /\ catalog = Bobina
  /\ last = NoLast

ExportSpec == ExportInit /\ [][ExportNext]_vars

-----------------------------------------------------------------------------
(* cambiar_calidad_obs on a table view sorted by one of its columns.  The   *)
(* view has setSortingEnabled(True) and the proxy setDynamicSortFilter(True): *)
(* a click on a header sorts the proxy rows by the texts of that column,    *)
(* and a dataChanged that leaves a source row out of order with the proxy   *)
(* row before or after it takes the row out of the proxy and inserts it     *)
(* again where the sort puts it (after the rows it is not less than).       *)

\* the place of a character in the order of the texts compared
CharRank(c) == IF AllDigits(<<c>>) THEN DigitsValue(<<c>>) ELSE 10

\* lessThan of the proxy on the texts of two cells
RECURSIVE TextLess(_, _)
TextLess(a, b) ==
  IF b = <<>> THEN FALSE
  ELSE IF a = <<>> THEN TRUE
  ELSE IF CharRank(Head(a)) # CharRank(Head(b)) THEN CharRank(Head(a)) < CharRank(Head(b))
  ELSE TextLess(Tail(a), Tail(b))

\* source row i is shown before source row j for the sort (column, order)
ProxyLess(mem, sort_column, sort_order, i, j) ==
  IF sort_order = "asc" THEN TextLess(mem[i][sort_column], mem[j][sort_column])
  ELSE TextLess(mem[j][sort_column], mem[i][sort_column])

\* the proxy rows with src_row inserted after the last row it is not
\* shown before
RECURSIVE InsertSorted(_, _, _, _, _)
InsertSorted(order, src_row, mem, sort_column, sort_order) ==
  IF order = <<>> THEN <<src_row>>
  ELSE IF ProxyLess(mem, sort_column, sort_order, src_row, order[Len(order)])
  THEN Append(InsertSorted(SubSeq(order, 1, Len(order) - 1), src_row, mem,
                           sort_column, sort_order),
              order[Len(order)])
  ELSE Append(order, src_row)

\* the visible source rows in the order the proxy shows them: source
\* order when no column is sorted, else sorted, equal rows in source order
RECURSIVE ProxyRows(_, _, _, _, _)
ProxyRows(vis, n, mem, sort_column, sort_order) ==
  IF sort_column = "none" THEN vis
  ELSE IF n = 0 THEN <<>>
  ELSE InsertSorted(ProxyRows(vis, n - 1, mem, sort_column, sort_order), vis[n], mem,
                    sort_column, sort_order)

\* src_row is shown before the proxy row above it, or the proxy row
\* below it is shown before src_row
NeedsReorder(order, src_row, mem, sort_column, sort_order) ==
  LET proxy_row == CHOOSE k \in DOMAIN order : order[k] = src_row
  IN \/ /\ proxy_row > 1
        /\ ProxyLess(mem, sort_column, sort_order, src_row, order[proxy_row - 1])
     \/ /\ proxy_row < Len(order)
        /\ ProxyLess(mem, sort_column, sort_order, order[proxy_row + 1], src_row)

\* the proxy rows after dataChanged of src_row
Resort(order, src_row, mem, sort_column, sort_order) ==
  IF sort_column = "none" THEN order
  ELSE IF ~NeedsReorder(order, src_row, mem, sort_column, sort_order) THEN order
  ELSE LET Others(r) == r # src_row
       IN InsertSorted(SelectSeq(order, Others), src_row, mem, sort_column, sort_order)

\* the loop "for proxy_row in range(filas_totales)": mapToSource is asked
\* at every iteration, on the proxy as it is then; st carries the table,
\* the memory, the proxy rows, the counters and the source rows gone
\* through
RECURSIVE RecodeLoopSorted(_, _, _, _, _, _, _, _)
RecodeLoopSorted(st, k, filas_totales, calidad_val, obs_val, sort_column, sort_order, sqlite_errors) ==
  IF k > filas_totales THEN st
  ELSE LET src_row == st.order[k]
           row_data == RecodeRowData(st.mem[src_row], calidad_val, obs_val)
           r == ModelUpdateRow(st.table, st.mem, src_row, row_data, src_row \in sqlite_errors)
       IN RecodeLoopSorted(
            [table |-> r.table,
             mem |-> r.mem,
             order |-> IF r.ok THEN Resort(st.order, src_row, r.mem, sort_column, sort_order)
                       ELSE st.order,
             visited |-> Append(st.visited, src_row),
             actualizados |-> st.actualizados + (IF r.ok THEN 1 ELSE 0),
             errores |-> st.errores + (IF r.ok THEN 0 ELSE 1),
             failed |-> IF r.ok THEN st.failed ELSE st.failed \cup {src_row}],
            k + 1, filas_totales, calidad_val, obs_val, sort_column, sort_order,
            sqlite_errors)

\* the Procesar button while the view is sorted by sort_column, on a
\* table of at most ProgressMinRows visible rows (no progress dialog)
CambiarCalidadObsSorted(sort_column, sort_order, calidad_text, obs_text, sqlite_errors) ==
  LET calidad_val == ComboValue(calidad_text)
      obs_val == ComboValue(obs_text)
      vis == VisibleRows(data_rows, of_filter)
      order == ProxyRows(vis, Len(vis), data_rows, sort_column, sort_order)
      base == Override(NoLast, [op |-> "recode_sorted", pre |-> db, premem |-> data_rows,
                                calidad_val |-> calidad_val, obs_val |-> obs_val,
                                sort_column |-> sort_column, sort_order |-> sort_order])
  IN /\ running
     /\ Len(vis) <= ProgressMinRows
     /\ IF calidad_val = <<>> \/ obs_val = <<>>
        THEN /\ last' = Override(base, [msg |-> "Valores incompletos"])
             /\ UNCHANGED <<db, data_rows>>
        ELSE IF Len(vis) = 0
        THEN /\ last' = Override(base, [msg |-> "Sin datos"])
             /\ UNCHANGED <<db, data_rows>>
        ELSE LET st == RecodeLoopSorted([table |-> db, mem |-> data_rows, order |-> order,
                                         visited |-> <<>>, actualizados |-> 0,
                                         errores |-> 0, failed |-> {}],
                                        1, Len(vis), calidad_val, obs_val, sort_column,
                                        sort_order, sqlite_errors)
             IN /\ db' = st.table
                /\ data_rows' = st.mem
                /\ last' = Override(base, [vis |-> order, failed |-> st.failed,
                                           visited |-> st.visited,
                                           actualizados |-> st.actualizados,
                                           errores |-> st.errores,
                                           msg |-> IF st.errores = 0 THEN "Cambios aplicados"
                                                   ELSE "Cambios aplicados parcialmente"])
     /\ UNCHANGED <<running, of_filter, catalog>>

\* the columns a header click sorts by, among them the two the recode
\* writes
SortColumns == {"none", "sec", "calidad", "obs"}

\* the tables the sorted view is opened on: those of the application and
\* one whose two rows hold the same calidad and obs
SortTables ==
  AppTables \cup {<<BaseRow, Override(BaseRow, [sec |-> <<"2">>])>>}

SortInit ==
  /\ db \in SortTables
  /\ running = FALSE
  /\ data_rows = <<>>
  /\ of_filter = <<>>
  /\ catalog = Bobina
  /\ last = NoLast

SortNext ==
  \/ ~running /\ Startup
  \/ \E text \in FilterTexts : SetOfFilter(text)
  \/ \E sort_column \in SortColumns, sort_order \in {"asc", "desc"},
        calidad_text \in CalidadTexts, obs_text \in ObsTexts,
        sqlite_errors \in {{}, {1}} :
          CambiarCalidadObsSorted(sort_column, sort_order, calidad_text, obs_text,
                                  sqlite_errors)

SortSpec == SortInit /\ [][SortNext]_vars

-----------------------------------------------------------------------------
(* The edit dialog accepted after a measurement was changed *)

\* get_row_data of the dialog after the spin box of field was set to
\* value: valueChanged has run _on_trigger_field_changed, which blanks
\* the code
MeasureRowData(row, calidad, obs, field, value) ==
  Override(DialogRowData(row, calidad, obs, TRUE), [f \in {field} |-> value])

\* show_edit_row_dialog accepted on the k-th visible row with a changed
\* measurement: update_row, and on success load_data
EditMeasurement(k, calidad, obs, field, value, sqlite_error) ==
  LET vis == VisibleRows(data_rows, of_filter)
  IN /\ running
     /\ k \in 1..Len(vis)
     /\ data_rows[vis[k]][field] # value
     /\ LET row_index == vis[k]
            new_row_data == MeasureRowData(data_rows[row_index], calidad, obs, field, value)
            r == ModelUpdateRow(db, data_rows, row_index, new_row_data, sqlite_error)
            loaded == get_production_data(r.table)
            base == Override(NoLast, [op |-> "edit_measurement", pre |-> db,
                                      premem |-> data_rows,
                                      calidad_val |-> calidad, obs_val |-> obs,
                                      row_index |-> row_index, ok |-> r.ok,
                                      col |-> field, value |-> value,
                                      row_data |-> new_row_data, mid |-> r.table])
        IN IF r.ok
           THEN /\ db' = loaded
                /\ data_rows' = LoadRows(loaded)
                /\ last' = Override(base, [msg |-> "Registro Actualizado"])
           ELSE /\ db' = r.table
                /\ data_rows' = r.mem
                /\ last' = Override(base, [msg |-> "Error"])
     /\ UNCHANGED <<running, of_filter, catalog>>

\* values typed in the spin boxes of ancho, gramaje and diametro
MeasureEdits ==
  {<<"ancho", Num(9000)>>, <<"ancho", Num(8250)>>, <<"gramaje", Num(9000)>>,
   <<"gramaje", Num(12000)>>, <<"diametro", Num(9000)>>, <<"diametro", Num(12000)>>}

MeasureNext ==
  \/ ~running /\ Startup
  \/ \E k \in 1..Len(data_rows), calidad \in EditCalidad, obs \in EditObs,
        edit \in MeasureEdits, sqlite_error \in BOOLEAN :
          EditMeasurement(k, calidad, obs, edit[1], edit[2], sqlite_error)

MeasureSpec == Init /\ [][MeasureNext]_vars

-----------------------------------------------------------------------------
(* The pass on rows with any combination of dates *)

EmptyDate == [k |-> "empty", d |-> 0]

\* rolls whose three dates are NULL, blank, set in either format, or no
\* date at all
DateRows ==
  {Override(BaseRow, [fecha |-> f, fechaElaboracion |-> e, fechaValidezLote |-> v]) :
     f \in {NullDate, EmptyDate, [k |-> "iso", d |-> Hoy - 3], Dmy(Hoy - 10),
            Dmy(Hoy), [k |-> "bad", d |-> 0]},
     e \in {NullDate, EmptyDate, Dmy(Hoy - 20)},
     v \in {NullDate, EmptyDate, Dmy(Hoy + 7)}}

DateNext == Pass

DateInit ==
  /\ db \in {<<row>> : row \in DateRows}
  /\ running = FALSE
  /\ data_rows = <<>>
  /\ of_filter = <<>>
  /\ catalog = Bobina
  /\ last = NoLast

DateSpec == DateInit /\ [][DateNext]_vars

-----------------------------------------------------------------------------
(* The pass on rows whose code is composed from any kind of measurement *)

\* rolls without a code whose gramaje, diametro and ancho are NULL, a text
\* float() rejects, or a number
FormatRows ==
  {Override(BaseRow, [codigoDeProducto |-> Null, gramaje |-> g, diametro |-> d,
                      ancho |-> a]) :
     g \in {NullNum, TextNum, Num(790), Num(12000)},
     d \in {NullNum, TextNum, Num(9550), Num(12000)},
     a \in {NullNum, TextNum, Num(8250), Num(-8250)}}

FormatNext == Pass

FormatInit ==
  /\ db \in {<<row>> : row \in FormatRows}
  /\ running = FALSE
  /\ data_rows = <<>>
  /\ of_filter = <<>>
  /\ catalog = Bobina
  /\ last = NoLast

FormatSpec == FormatInit /\ [][FormatNext]_vars

-----------------------------------------------------------------------------
(* update_row called with the text of a date *)

\* a date written in every format
DateTexts ==
  {[k |-> k, d |-> d] : k \in {"dmy", "iso", "isotime", "ymd", "dashed"},
                        d \in {Hoy - 3, Hoy}}
    \cup {[k |-> "bad", d |-> 0]}

DateColumns == {"fechaElaboracion", "fechaValidezLote"}

\* the loop over (col_name, value) before the UPDATE is built: the values
\* of the date columns that are not None go through _format_date
formatted_row_data(set) ==
  [f \in DOMAIN set |->
     IF f \in DateColumns /\ set[f] # NullDate THEN _format_date(set[f]) ELSE set[f]]

UpdateDate(col, date_value, sqlite_error) ==
  LET set == [c \in {col} |-> date_value]
      r == update_row(db, catalog, formatted_row_data(set), <<"bobina_num", "sec">>,
                      <<BaseRow.bobina_num, BaseRow.sec>>, sqlite_error)
  IN /\ db' = r.table
     /\ last' = Override(NoLast, [op |-> "update_date", pre |-> db, ok |-> r.ok,
                                  col |-> col, value |-> date_value,
                                  sqlite_error |-> sqlite_error])
     /\ UNCHANGED <<running, data_rows, of_filter, catalog>>

DateFormatNext ==
  \E col \in DateColumns, date_value \in DateTexts, sqlite_error \in BOOLEAN :
    UpdateDate(col, date_value, sqlite_error)

DateFormatInit ==
  /\ db = <<BaseRow>>
  /\ running = FALSE
  /\ data_rows = <<>>
  /\ of_filter = <<>>
  /\ catalog = Bobina
  /\ last = NoLast

DateFormatSpec == DateFormatInit /\ [][DateFormatNext]_vars

-----------------------------------------------------------------------------
(* The pass on tables with rows whose processing raises *)

\* one run of the Bulk Normalization Pass in which the rows of
\* quality_errors raise in the quality loop and those of fill_errors in
\* the fill loop
PassWithErrors(quality_errors, fill_errors) ==
  /\ BobinaTableFound(catalog)
  /\ db' = EmptyFieldsPassWith(db, quality_errors, fill_errors)
  /\ last' = Override(NoLast, [op |-> "pass_errors", pre |-> db, premem |-> data_rows,
                               mid |-> QualityPassWith(db, quality_errors),
                               quality_errors |-> quality_errors,
                               fill_errors |-> fill_errors])
  /\ UNCHANGED <<running, data_rows, of_filter, catalog>>

\* a roll to normalise: no code, lote, nroOT, calidad, obs or dates yet
BlankRow ==
  Override(BaseRow, [codigoDeProducto |-> Null, lote |-> Null, nroOT |-> Null,
                     calidad |-> Null, obs |-> Null, fecha |-> NullDate,
                     fechaElaboracion |-> NullDate, fechaValidezLote |-> NullDate])

\* tables of three rolls, all or some of them to normalise
ErrorTables ==
  {[i \in 1..3 |-> Override(BlankRow, [sec |-> IntStr(i)])],
   [i \in 1..3 |-> Override(IF i = 2 THEN BaseRow ELSE BlankRow, [sec |-> IntStr(i)])],
   [i \in 1..3 |-> Override(BlankRow, [sec |-> IntStr(i), codprod |-> <<"3">>,
                                        calidad |-> <<"0", "1">>])]}

ErrorNext ==
  \E quality_errors \in {{}, {1}}, fill_errors \in {{}, {2}, {3}, {1, 3}} :
      PassWithErrors(quality_errors, fill_errors)

ErrorInit ==
  /\ db \in ErrorTables
  /\ running = FALSE
  /\ data_rows = <<>>
  /\ of_filter = <<>>
  /\ catalog = Bobina
  /\ last = NoLast

ErrorSpec == ErrorInit /\ [][ErrorNext]_vars

-----------------------------------------------------------------------------
(* ProductionData.update_row called on its own, as debug_db_update.py and   *)
(* test_db_update.py call it                                                *)

\* SET lists: known columns, a known and an unknown one, unknown ones only
ApiSets ==
  {[calidad |-> <<"9">>, obs |-> <<"7">>],
   [calidad |-> <<"8">>, obs |-> <<"7">>, codigoDeProducto |-> <<"Z", "Z">>],
   [calidad |-> <<"9">>, calidad2 |-> <<"7">>],
   [calidad2 |-> <<"9">>, obs2 |-> <<"7">>]}

\* WHERE lists: the natural key (present, absent, with a NULL), a single
\* field, an unknown field
ApiWheres ==
  {[fields |-> <<"bobina_num", "sec">>, values |-> <<(<<"1", "0", "0">>), (<<"1">>)>>],
   [fields |-> <<"bobina_num", "sec">>, values |-> <<(<<"1", "0", "0">>), (<<"2">>)>>],
   [fields |-> <<"bobina_num", "sec">>, values |-> <<(<<"9", "9", "9">>), (<<"1">>)>>],
   [fields |-> <<"bobina_num", "sec">>, values |-> <<(<<"1", "0", "0">>), Null>>],
   [fields |-> <<"bobina_num">>, values |-> <<(<<"1", "0", "0">>)>>],
   [fields |-> <<"bobina_num", "seq">>, values |-> <<(<<"1", "0", "0">>), (<<"1">>)>>]}

\* table names passed by the caller
ApiTableNames == {Bobina, <<"B", "o", "b", "i", "n", "a">>}

ApiUpdateRow(table_name, set, where, sqlite_error) ==
  LET r == update_row(db, table_name, set, where.fields, where.values, sqlite_error)
  IN /\ db' = r.table
     /\ last' = Override(NoLast, [op |-> "api_update", pre |-> db, ok |-> r.ok,
                                  table_name |-> table_name, set |-> set,
                                  where_fields |-> where.fields,
                                  where_values |-> where.values,
                                  sqlite_error |-> sqlite_error])
     /\ UNCHANGED <<running, data_rows, of_filter, catalog>>

ApiNext ==
  \E table_name \in ApiTableNames, set \in ApiSets, where \in ApiWheres,
     sqlite_error \in BOOLEAN :
       ApiUpdateRow(table_name, set, where, sqlite_error)

ApiInit ==
  /\ db \in RecodeTables
  /\ running = FALSE
  /\ data_rows = <<>>
  /\ of_filter = <<>>
  /\ catalog = Bobina
  /\ last = NoLast

ApiSpec == ApiInit /\ [][ApiNext]_vars

-----------------------------------------------------------------------------
(* The production widget with its Add, Copy, Edit and Delete buttons, the   *)
(* cells of the grid editable, the OF filter and the Bulk Recode            *)

\* (of, bobina_num, sec) entered in the Add dialog
AddKeys == {<<3, 100, 1>>}

\* (bobina_num, sec) entered in the Copy dialog
CopyKeys == {<<100, 1>>, <<100, 2>>}

\* texts typed in the OF filter of the widget
CrudFilterTexts == {<<>>, <<"1", "2">>}

\* the tables the widget is started on
CrudTables ==
  {<<BaseRow>>,
   <<BaseRow, Override(BaseRow, [sec |-> <<"2">>, of |-> <<"3">>])>>,
   <<BaseRow, Override(BaseRow, [bobina_num |-> <<"1", "0", "1">>, sec |-> <<>>])>>}

CrudNext ==
  \/ Startup
  \/ \E text \in CrudFilterTexts : SetOfFilter(text)
  \/ CambiarCalidadObs(<<"0", "5", " ", "-", " ", "B">>, <<" ", "0", "2", " ", "-", " ", "R">>, {}, 0)
  \/ \E key \in AddKeys, sqlite_error \in BOOLEAN :
          AddRow(NewRowData(key[1], key[2], key[3]), sqlite_error)
  \/ \E k \in 1..Len(data_rows), key \in CopyKeys, sqlite_error \in BOOLEAN :
          CopyRow(k, key[1], key[2], sqlite_error)
  \/ \E selected \in SUBSET (1..Len(data_rows)) :
       \E sqlite_errors \in {{}, {Max(selected \cup {0})}} :
          /\ \A i \in selected : filterAcceptsRow(of_filter, data_rows[i])
          /\ DeleteSelectedRows(selected, sqlite_errors)

CrudInit ==
  /\ db \in CrudTables
  /\ running = FALSE
  /\ data_rows = <<>>
  /\ of_filter = <<>>
  /\ catalog = Bobina
  /\ last = NoLast

CrudSpec == CrudInit /\ [][CrudNext]_vars

\* cells typed in the grid: column and text
GridEdits == {<<"obs", (<<"0", "2">>)>>, <<"sec", (<<"2">>)>>}

\* one session of the widget: started once, then cells edited
GridNext ==
  \/ ~running /\ Startup
  \/ \E k \in 1..Len(data_rows), edit \in GridEdits, sqlite_error \in BOOLEAN :
          SetData(k, edit[1], edit[2], sqlite_error)

GridSpec == CrudInit /\ [][GridNext]_vars

-----------------------------------------------------------------------------
(* The Bulk Recode on a table long enough for the progress dialog *)

\* rows of the long table
LongRows == 11

\* bobina 100 cut in LongRows rolls
LongTable == [i \in 1..LongRows |-> Override(BaseRow, [sec |-> IntStr(i)])]

\* one session on the long table: started once, then the Procesar button
\* with the Cancel button pressed during any row, or not at all
CancelNext ==
  \/ ~running /\ Startup
  \/ \E cancel_at \in 0..LongRows, sqlite_errors \in {{}, {2}} :
          CambiarCalidadObs(<<"0", "5", " ", "-", " ", "B">>,
                            <<" ", "0", "2", " ", "-", " ", "R">>, sqlite_errors, cancel_at)
  \/ CambiarCalidadObs(<<"0", "4">>, <<"0", "3">>, {}, LongRows)

CancelInit ==
  /\ db = LongTable
  /\ running = FALSE
  /\ data_rows = <<>>
  /\ of_filter = <<>>
  /\ catalog = Bobina
  /\ last = NoLast

CancelSpec == CancelInit /\ [][CancelNext]_vars

-----------------------------------------------------------------------------
(* The application on databases whose production table has another name *)

\* names of the production table
TableNames ==
  {Bobina, <<"B", "o", "b", "i", "n", "a">>, Bobinas,
   <<"B", "O", "B", "I", "N", "A", "S">>, <<"r", "o", "l", "l", "o", "s">>}

\* the tables the application is started on: a row to normalise, a row to
\* derive the quality of, a row with nothing to do
SchemaTables ==
  {<<BaseRow>>,
   <<Override(BaseRow, [calidad |-> Null, obs |-> Null])>>,
   <<Override(BaseRow, [of |-> Null, codigoDeProducto |-> Null, lote |-> Null,
                        nroOT |-> Null, codprod |-> <<"3">>,
                        calidad |-> Null, obs |-> Null, fecha |-> NullDate,
                        fechaElaboracion |-> NullDate,
                        fechaValidezLote |-> NullDate])>>}

SchemaNext ==
  \/ Startup
  \/ Login
  \/ \E k \in 1..Len(data_rows), calidad \in EditCalidad, obs \in EditObs,
        sqlite_error \in BOOLEAN :
          EditRow(k, calidad, obs, FALSE, sqlite_error)

SchemaInit ==
  /\ db \in SchemaTables
  /\ running = FALSE
  /\ data_rows = <<>>
  /\ of_filter = <<>>
  /\ catalog \in TableNames
  /\ last = NoLast

SchemaSpec == SchemaInit /\ [][SchemaNext]_vars

-----------------------------------------------------------------------------
(* Properties of the Bulk Recode *)

\* the spliced code, written out: C[:4] + q + o + C[8:]
ExpectedSplice(C, q, o) == SubSeq(C, 1, 4) \o q \o o \o SubSeq(C, 9, Len(C))

\* the last handler was a Bulk Recode that went through its loop
Recoded == last.op = "recode" /\ Len(last.vis) > 0

\* the source rows the last Bulk Recode visited
VisitedRows == {last.vis[k] : k \in 1..Len(last.vis)}

C2_Scenario ==
  /\ Recoded
  /\ last.calidad_val = <<"0", "5">> /\ last.obs_val = <<"0", "2">>
  /\ Len(last.pre) = 1 /\ last.vis = <<1>> /\ last.failed = {}
  /\ last.premem = last.pre
  /\ last.pre[1].bobina_num = <<"1", "0", "0">> /\ last.pre[1].sec = <<"1">>
  /\ last.pre[1].calidad = <<"0", "1">> /\ last.pre[1].obs = <<"0", "0">>
  /\ last.pre[1].ancho = Num(8250)
  /\ last.pre[1].codigoDeProducto =
       <<"A", "B", "0", "1", "0", "1", "0", "0", "0", "1", "2", "0",
         "0", "1", "2", "0", "0", "0", "8", "2", "5", "0", "0">>

\* C2 as stated: in the scenario the persisted code is
\* "AB01" + "05" + "02" + "0012001200082500", calidad "05", obs "02"
C2_AsStated ==
  C2_Scenario =>
    /\ db[1].codigoDeProducto =
         <<"A", "B", "0", "1">> \o <<"0", "5">> \o <<"0", "2">>
           \o <<"0", "0", "1", "2", "0", "0", "1", "2", "0", "0", "0", "8", "2", "5", "0", "0">>
    /\ db[1].calidad = <<"0", "5">>
    /\ db[1].obs = <<"0", "2">>

\* C2: in the scenario the persisted code is "AB01" + "05" + "02" followed
\* by the 15 characters the stored code has from index 8 on,
\* "012001200082500"; the persisted calidad is "05" and obs is "02"
C2_Amended ==
  C2_Scenario =>
    /\ db[1].codigoDeProducto =
         <<"A", "B", "0", "1">> \o <<"0", "5">> \o <<"0", "2">>
           \o <<"0", "1", "2", "0", "0", "1", "2", "0", "0", "0", "8", "2", "5", "0", "0">>
    /\ db[1].calidad = <<"0", "5">>
    /\ db[1].obs = <<"0", "2">>

\* the scenario happened and the code in the table has 23 characters
C2_Witness == C2_Scenario /\ Len(db[1].codigoDeProducto) = 23

NaturalKey(row) == <<row.bobina_num, row.sec>>

\* calidad, obs and code of a row
RecodedFields(row) == <<row.calidad, row.obs, row.codigoDeProducto>>

\* C4: an update_row keyed by one (bobina_num, sec) pair leaves calidad,
\* obs and codigoDeProducto of every row with a different pair as they
\* were: after the update of the edit dialog (before its reload) and after
\* the updates of a Bulk Recode
C4_NaturalKeyTargeting ==
  /\ last.op = "edit" =>
       \A i \in DOMAIN last.mid :
         NaturalKey(last.pre[i]) # NaturalKey(last.premem[last.row_index])
           => RecodedFields(last.mid[i]) = RecodedFields(last.pre[i])
  /\ Recoded =>
       \A i \in DOMAIN db :
         (\A j \in VisitedRows : NaturalKey(last.pre[i]) # NaturalKey(last.premem[j]))
           => RecodedFields(db[i]) = RecodedFields(last.pre[i])

\* an edit whose update changed its row while another row has the same
\* bobina_num and a different sec
C4_Witness ==
  /\ last.op = "edit" /\ last.ok
  /\ RecodedFields(last.mid[last.row_index]) # RecodedFields(last.pre[last.row_index])
  /\ \E i \in DOMAIN last.pre :
       /\ i # last.row_index
       /\ last.pre[i].bobina_num = last.pre[last.row_index].bobina_num
       /\ last.pre[i].sec # last.pre[last.row_index].sec

\* code[4:6] = calidad and code[6:8] = obs in every row whose code has 8
\* characters or more
Synchronised(table) ==
  \A i \in DOMAIN table :
    LET code == Str(table[i].codigoDeProducto)
    IN Len(code) >= 8 =>
         /\ table[i].calidad = SubSeq(code, 5, 6)
         /\ table[i].obs = SubSeq(code, 7, 8)

\* C5: every row of the table whose code has 8 characters or more carries
\* its calidad at code[4:6] and its obs at code[6:8], after any sequence of
\* loads, Bulk Recodes and edits
C5_CodeQualitySync == Synchronised(db)

-----------------------------------------------------------------------------
(* Properties of the Bulk Normalization Pass *)

\* neither NULL nor made of spaces only
NonBlank(v) == v # Null /\ \E j \in 1..Len(v) : v[j] # " "

\* C6: a second run of the pass right after a first one leaves every
\* column of every row as the first run left it
C6_PassIdempotent == (last.op = "pass" /\ last.runs = 2) => db = last.pre

\* C7: a row whose calidad and obs are both non-blank keeps them through
\* the pass: through a login, through the load at start, and through the
\* reload that follows an edit
C7_NonBlankPairKept ==
  /\ last.op \in {"pass", "startup"} =>
       \A i \in DOMAIN db :
         (NonBlank(last.pre[i].calidad) /\ NonBlank(last.pre[i].obs))
           => (db[i].calidad = last.pre[i].calidad /\ db[i].obs = last.pre[i].obs)
  /\ (last.op = "edit" /\ last.ok) =>
       \A i \in DOMAIN db :
         (NonBlank(last.mid[i].calidad) /\ NonBlank(last.mid[i].obs))
           => (db[i].calidad = last.mid[i].calidad /\ db[i].obs = last.mid[i].obs)

\* C8: the pass leaves a non-blank codigoDeProducto, a non-blank lote and
\* a non-blank nroOT of any row as they were
C8_FilledFieldsKept ==
  last.op = "pass" =>
    \A i \in DOMAIN db :
      /\ NonBlank(last.pre[i].codigoDeProducto)
           => db[i].codigoDeProducto = last.pre[i].codigoDeProducto
      /\ NonBlank(last.pre[i].lote) => db[i].lote = last.pre[i].lote
      /\ NonBlank(last.pre[i].nroOT) => db[i].nroOT = last.pre[i].nroOT

\* a run of the pass that composed the code of a row and filled its nroOT
\* while the row had a lote
C8_Witness ==
  /\ last.op = "pass"
  /\ \E i \in DOMAIN db :
       /\ last.pre[i].codigoDeProducto = Null /\ NonBlank(db[i].codigoDeProducto)
       /\ last.pre[i].nroOT = Null /\ NonBlank(db[i].nroOT)
       /\ last.pre[i].of # Null /\ last.pre[i].sec # Null
       /\ last.pre[i].lote = <<"L", "9">>

\* C9: after the pass every row with a numeric peso holds its 2-decimal
\* comma form in CantidadEnPrimeraUdM, every row with of and sec holds a
\* non-blank lote and every row with of holds a non-blank nroOT, rows whose
\* code was already filled included
C9_PassComplete ==
  last.op = "pass" =>
    \A i \in DOMAIN db :
      /\ db[i].peso.k = "num" => db[i].CantidadEnPrimeraUdM = peso_formateado(db[i].peso)
      /\ (db[i].of # Null /\ db[i].sec # Null) => NonBlank(db[i].lote)
      /\ db[i].of # Null => NonBlank(db[i].nroOT)

\* the pair of the deriver table for a codprod as stored
TablePair(codprod) ==
  CASE codprod \in {<<"1">>, <<"0", "1">>, <<"4">>, <<"7">>}
         -> <<(<<"0", "1">>), (<<"0", "0">>)>>
    [] codprod \in {<<"2">>, <<"6">>, <<"0", "0", "6">>}
         -> <<(<<"0", "1">>), (<<"0", "2">>)>>
    [] codprod \in {<<"3">>, <<"0", "3">>, <<"5">>, <<" ", "3", " ">>}
         -> <<(<<"0", "5">>), (<<"0", "2">>)>>
    [] codprod \in {Null, <<>>, <<"0", "0">>, <<"9">>, <<"1", "0">>}
         -> <<(<<"0", "1">>), (<<"0", "0">>)>>

\* C10: the pass derives (01,00) for codprod 1, 4 and 7, (01,02) for 2 and
\* 6, (05,02) for 3 and 5, and (01,00) for anything else, zeros stripped
\* on the left first: "00", "9", "" and NULL included
C10_DeriverTable ==
  last.op = "pass" =>
    \A i \in DOMAIN db :
      <<db[i].calidad, db[i].obs>> = TablePair(last.pre[i].codprod)

\* a run of the pass that derived (05,02) from "03" on a row without
\* calidad and obs
C10_Witness ==
  /\ last.op = "pass"
  /\ \E i \in DOMAIN db :
       /\ last.pre[i].codprod = <<"0", "3">>
       /\ last.pre[i].calidad = Null /\ last.pre[i].obs = Null
       /\ db[i].calidad = <<"0", "5">> /\ db[i].obs = <<"0", "2">>

-----------------------------------------------------------------------------
(* Properties of ProductionData.update_row *)

\* the last handler was a direct call of update_row on the existing table
ApiCall == last.op = "api_update" /\ last.table_name = catalog

\* the SET columns of the last call that the table has
KnownSet == DOMAIN last.set \cap column_names

\* a WHERE field of the last call is no column of the table
UnknownWhere == \E i \in DOMAIN last.where_fields : last.where_fields[i] \notin column_names

\* the rows the WHERE clause of the last call selected
Selected ==
  {i \in DOMAIN last.pre :
     \A k \in DOMAIN last.where_fields :
       /\ last.where_values[k] # Null
       /\ last.pre[i][last.where_fields[k]] = last.where_values[k]}

\* C11: update_row drops the SET columns the table does not have and
\* writes the others to every row the WHERE clause selects, returning
\* True; with no known SET column, or with an unknown WHERE column, it
\* returns False and no row of the table is changed
C11_ColumnValidation ==
  ApiCall =>
    /\ (KnownSet = {} \/ UnknownWhere) => (~last.ok /\ db = last.pre)
    /\ (KnownSet # {} /\ ~UnknownWhere /\ ~last.sqlite_error /\ Selected # {}) =>
         /\ last.ok
         /\ \A i \in DOMAIN db, f \in column_names :
              db[i][f] = IF i \in Selected /\ f \in KnownSet THEN last.set[f]
                         ELSE last.pre[i][f]

\* a call with a known and an unknown SET column that changed a row, in a
\* table with a second row
C11_Witness ==
  /\ ApiCall /\ last.ok
  /\ "calidad2" \in DOMAIN last.set /\ "calidad" \in DOMAIN last.set
  /\ Len(db) = 2 /\ db[1].calidad = <<"9">> /\ last.pre[1].calidad # <<"9">>
  /\ db[2] = last.pre[2]

\* the last call had the natural key as its WHERE list and known SET
\* columns only
KeyedCall ==
  /\ ApiCall
  /\ last.where_fields = <<"bobina_num", "sec">>
  /\ DOMAIN last.set \subseteq column_names

\* the rows of a table that hold the key of the last call
RowsOfKey(table) ==
  {i \in DOMAIN table :
     /\ last.where_values[1] # Null /\ table[i].bobina_num = last.where_values[1]
     /\ last.where_values[2] # Null /\ table[i].sec = last.where_values[2]}

\* C12: update_row returns True only if a row held the (bobina_num, sec)
\* key, and then the rows read back by that key hold the written calidad
\* and obs; when no row holds the key it returns False and every row of
\* the table is unchanged
C12_ResultSound ==
  KeyedCall =>
    /\ last.ok =>
         /\ RowsOfKey(last.pre) # {}
         /\ RowsOfKey(db) # {}
         /\ \A i \in RowsOfKey(db) :
              db[i].calidad = last.set.calidad /\ db[i].obs = last.set.obs
    /\ RowsOfKey(last.pre) = {} => (~last.ok /\ db = last.pre)

\* a call that returned False because no row held the key, after a call
\* that had rewritten a row
C12_Witness ==
  /\ KeyedCall /\ ~last.ok /\ ~last.sqlite_error
  /\ RowsOfKey(last.pre) = {}
  /\ \E i \in DOMAIN db : db[i].calidad = <<"9">> /\ db[i].obs = <<"7">>

\* the last handler was the Bulk Recode and it stopped on its
\* preconditions: a target value empty, or no row of the memory passing
\* the OF filter
RecodeStopped ==
  /\ last.op = "recode"
  /\ \/ last.calidad_val = <<>>
     \/ last.obs_val = <<>>
     \/ \A i \in DOMAIN last.premem : ~filterAcceptsRow(of_filter, last.premem[i])

\* C14: a Bulk Recode with an empty target quality or observation, or
\* with no row passing the active filter, modifies no row of the table and
\* no row in memory; with both targets given and nothing visible it
\* reports that there is nothing to update, and counts no error
C14_RecodePreconditions ==
  RecodeStopped =>
    /\ db = last.pre
    /\ data_rows = last.premem
    /\ last.errores = 0 /\ last.actualizados = 0
    /\ last.msg = (IF last.calidad_val = <<>> \/ last.obs_val = <<>>
                    THEN "Valores incompletos" ELSE "Sin datos")

\* a Bulk Recode with both targets given, on a loaded table none of whose
\* rows passes the filter
C14_Witness ==
  /\ RecodeStopped
  /\ last.calidad_val # <<>> /\ last.obs_val # <<>>
  /\ Len(last.premem) > 0
  /\ of_filter # <<>>

-----------------------------------------------------------------------------
(* Properties of Add, Copy, Delete and the cells of the grid *)

Deleted == last.op = "delete"

\* the pairs the DELETE statements of the last delete_selected_rows ran
\* with: those of the selected rows in memory whose bobina_num and sec are
\* both non-empty, the statements sqlite3 rejected left out
DeletedKeys ==
  {<<last.premem[i].bobina_num, last.premem[i].sec>> :
     i \in {j \in last.selected : /\ j \notin last.failed
                                  /\ ~Falsy(last.premem[j].bobina_num)
                                  /\ ~Falsy(last.premem[j].sec)}}

RecodeApplied == last.op = "recode" /\ Len(last.vis) > 0

\* C15: the Bulk Recode leaves every persisted row that does not pass the
\* active OF filter as it was, also a row of another OF that carries the
\* (bobina_num, sec) pair of a visible row
C15_RecodeScope ==
  RecodeApplied =>
    \A k \in DOMAIN last.pre :
      ~filterAcceptsRow(of_filter, last.pre[k]) => db[k] = last.pre[k]

\* the code of old with calidad_val and obs_val at its characters 5 to 8
CodeOf(old, calidad_val, obs_val) ==
  SubSeq(old, 1, 4) \o calidad_val \o obs_val \o SubSeq(old, 9, Len(old))

\* row is old with the three columns of the recode written, and nothing
\* else changed
FullyUpdated(row, old) ==
  row = Override(old, [calidad |-> last.calidad_val, obs |-> last.obs_val,
                       codigoDeProducto |->
                         CodeOf(old.codigoDeProducto, last.calidad_val, last.obs_val)])

\* C16: cancelling the Bulk Recode takes effect between rows: whenever the
\* progress dialog is cancelled, every row of the table and of the memory
\* is either untouched or has calidad, obs and the spliced code written
\* together; the rows gone through before the cancel are the updated ones
C16_CancelBetweenRows ==
  (RecodeApplied /\ Len(last.vis) > ProgressMinRows) =>
    /\ Len(db) = Len(last.pre) /\ Len(data_rows) = Len(last.premem)
    /\ \A i \in DOMAIN db :
         \/ db[i] = last.pre[i]
         \/ FullyUpdated(db[i], last.pre[i])
    /\ \A i \in DOMAIN data_rows :
         \/ data_rows[i] = last.premem[i]
         \/ FullyUpdated(data_rows[i], last.premem[i])
    /\ \A k \in DOMAIN last.vis :
         LET i == last.vis[k]
         IN IF k <= last.cancel_at /\ i \notin last.failed
            THEN FullyUpdated(data_rows[i], last.premem[i])
            ELSE data_rows[i] = last.premem[i]

\* a Bulk Recode cancelled in the middle of the long table: rows before
\* the cancel rewritten, rows after it as they were
C16_Witness ==
  /\ RecodeApplied
  /\ Len(last.vis) > ProgressMinRows
  /\ last.cancel_at \in 1..(Len(last.vis) - 1)
  /\ db[1] # last.pre[1]
  /\ db[Len(db)] = last.pre[Len(db)]
  /\ db[Len(db)].calidad # last.calidad_val

\* C17: no two rows of the table share the same (bobina_num, sec) pair
C17_NaturalKeyUnique ==
  \A i, j \in DOMAIN db :
    i # j => <<db[i].bobina_num, db[i].sec>> # <<db[j].bobina_num, db[j].sec>>

\* the last handler was setData, on the row of the memory loaded from the
\* row of the table at the same position
CellEdited == last.op = "setdata"

\* C18: an edit of a cell in the grid changes the persisted bobina_num and
\* sec of no row, and overwrites no column of a persisted row other than
\* the edited one
C18_NaturalKeyImmutable ==
  CellEdited =>
    /\ Len(db) = Len(last.pre)
    /\ \A k \in DOMAIN db :
         /\ db[k].bobina_num = last.pre[k].bobina_num
         /\ db[k].sec = last.pre[k].sec
         /\ k # last.row_index => db[k] = last.pre[k]

\* C19: write-through: when the rows in memory equalled the rows of the
\* table before a cell was edited they equal them afterwards, and an edit
\* whose database write failed leaves the rows in memory as they were
C19_WriteThrough ==
  CellEdited =>
    /\ last.premem = LoadRows(last.pre) => data_rows = LoadRows(db)
    /\ ~last.ok => data_rows = last.premem

-----------------------------------------------------------------------------
(* Properties of the table lookup *)

\* C20: the normalization pass resolves the production table as the load
\* and the model update do: on a table called "bobina" or "bobinas", in
\* any capitalisation, it normalises the rows, the same way for both
\* names, and on a table of another name it writes nothing
C20_UniformDiscovery ==
  last.op = "pass" =>
    db = (IF BobinaOrBobinasFound(catalog) THEN EmptyFieldsPass(last.pre) ELSE last.pre)

-----------------------------------------------------------------------------
(* Properties of the pass when rows raise *)

PassedWithErrors == last.op = "pass_errors"

\* C21: in the Bulk Normalization Pass a row whose processing raises is
\* the only one to lose its change: every other row, before or after it,
\* has the change of the pass persisted, in the quality loop and in the
\* fill loop, and the pass goes through all rows
C21_RowFailureIsolation ==
  PassedWithErrors =>
    /\ Len(db) = Len(last.pre)
    /\ \A rowid \in DOMAIN db :
         LET derived == IF rowid \in last.quality_errors THEN last.pre[rowid]
                        ELSE UpdateQualityRow(last.pre[rowid])
         IN db[rowid] = (IF SelectedForFill(derived) /\ rowid \notin last.fill_errors
                         THEN FillRow(derived) ELSE derived)

\* a pass over three rows to fill in which the second raises in the fill
\* loop: the first and the third are filled, the second is not
C21_Witness ==
  /\ PassedWithErrors
  /\ last.fill_errors = {2} /\ last.quality_errors = {}
  /\ \A rowid \in {1, 3} : SelectedForFill(last.pre[rowid]) /\ ~SelectedForFill(db[rowid])
  /\ SelectedForFill(db[2])

-----------------------------------------------------------------------------
(* Properties of the export *)

Exported == last.op = "export"

\* the quantity of a row: its first-unit quantity when one is set, else
\* its peso
QuantityOf(row) ==
  IF is_empty(row.CantidadEnPrimeraUdM) THEN row.peso
  ELSE FloatOfText(row.CantidadEnPrimeraUdM)

\* C22: the export writes one line per record, in record order, and the
\* cantidad_primera of each line is the record's quantity with two
\* decimals and a comma, the quantity being the peso when no first-unit
\* quantity is set, and "0,00" when it cannot be parsed
C22_ExportQuantity ==
  Exported =>
    /\ Len(last.lines) = Len(last.data)
    /\ \A i \in DOMAIN last.lines :
         /\ last.lines[i].bobina_sec
              = Str(last.data[i].bobina_num) \o <<"/">> \o Str(last.data[i].sec)
         /\ last.lines[i].cantidad_primera = peso_formateado(QuantityOf(last.data[i]))

-----------------------------------------------------------------------------
(* Properties of the dates the pass stamps *)

BlankDate(date_value) == date_value.k \in {"null", "empty"}

\* C23: the pass changes only blank dates: a non-blank fecha,
\* fechaElaboracion or fechaValidezLote is kept, a blank fecha or
\* fechaElaboracion becomes today, and a fechaValidezLote the pass fills
\* in is the fechaElaboracion of the row plus 5*365 days
C23_DateStampFrame ==
  last.op = "pass" =>
    \A rowid \in DOMAIN db :
      LET old == last.pre[rowid]
          new == db[rowid]
      IN /\ ~BlankDate(old.fecha) => new.fecha = old.fecha
         /\ ~BlankDate(old.fechaElaboracion) => new.fechaElaboracion = old.fechaElaboracion
         /\ ~BlankDate(old.fechaValidezLote) => new.fechaValidezLote = old.fechaValidezLote
         /\ BlankDate(old.fecha) => new.fecha = Dmy(Hoy)
         /\ BlankDate(old.fechaElaboracion) => new.fechaElaboracion = Dmy(Hoy)
         /\ (BlankDate(old.fechaValidezLote) /\ ~BlankDate(new.fechaValidezLote))
              => /\ new.fechaElaboracion.k = "dmy"
                 /\ new.fechaValidezLote = Dmy(new.fechaElaboracion.d + ValidezDays)

-----------------------------------------------------------------------------
(* Properties of the formatters of the composed code *)

\* C24: the segments have a fixed width whatever the measurement: gramaje
\* 3 characters ("000" when NULL or no number, "007" for 7.9), diametro 4,
\* ancho 5 ("08250" for 82.5, "00000" when NULL or no number), and in the
\* code composed from them calidad is at positions 4-5 and obs at 6-7
C24_FixedWidthSegments ==
  last.op = "pass" =>
    \A rowid \in DOMAIN db :
      LET old == last.pre[rowid]
          codigo == db[rowid].codigoDeProducto
      IN SelectedForFill(old) =>
           /\ Len(_format_gramaje(old.gramaje)) = 3
           /\ old.gramaje.k # "num" => _format_gramaje(old.gramaje) = <<"0", "0", "0">>
           /\ old.gramaje = Num(790) => _format_gramaje(old.gramaje) = <<"0", "0", "7">>
           /\ Len(_format_diametro(old.diametro)) = 4
           /\ Len(_format_ancho(old.ancho)) = 5
           /\ old.ancho.k # "num"
                => _format_ancho(old.ancho) = <<"0", "0", "0", "0", "0">>
           /\ old.ancho = Num(8250)
                => _format_ancho(old.ancho) = <<"0", "8", "2", "5", "0">>
           /\ Len(codigo) = 8 + 3 + 4 + 5
           /\ SubSeq(codigo, 5, 6) = db[rowid].calidad
           /\ SubSeq(codigo, 7, 8) = db[rowid].obs
           /\ SubSeq(codigo, 9, 20)
                = _format_gramaje(old.gramaje) \o _format_diametro(old.diametro)
                    \o _format_ancho(old.ancho)

-----------------------------------------------------------------------------
(* Properties of the date formatting of update_row *)

DateUpdated == last.op = "update_date" /\ last.ok

\* C25: a date written as dd/mm/yyyy is stored unchanged, one written as
\* yyyy-mm-dd (with or without a time), yyyy/mm/dd or dd-mm-yyyy is stored
\* as the same day in dd/mm/yyyy, a text in none of the formats is stored
\* unchanged, and formatting what was stored changes nothing
C25_FormatDate ==
  DateUpdated =>
    LET stored == db[1][last.col]
    IN /\ last.value.k = "dmy" => stored = last.value
       /\ last.value.k \in {"iso", "isotime", "ymd", "dashed"}
            => stored = Dmy(last.value.d)
       /\ last.value.k = "bad" => stored = last.value
       /\ _format_date(stored) = stored

-----------------------------------------------------------------------------
(* Properties of the recode on a sorted view *)

RecodeSortedApplied ==
  /\ last.op = "recode_sorted"
  /\ last.msg \in {"Cambios aplicados", "Cambios aplicados parcialmente"}

\* C26: whatever column the view is sorted by, the recode goes through
\* every visible row exactly once: no visible row is skipped and none is
\* gone through twice
C26_VisitEachRowOnce ==
  RecodeSortedApplied =>
    /\ \A i \in DOMAIN last.vis : \E j \in DOMAIN last.visited : last.visited[j] = last.vis[i]
    /\ \A j1, j2 \in DOMAIN last.visited :
         last.visited[j1] = last.visited[j2] => j1 = j2

-----------------------------------------------------------------------------
(* Properties of the columns an edit in the grid writes *)

\* C27: an edit of one cell in the grid, made while the rows in memory
\* equal the rows of the table and reaching the database, leaves every
\* other column of the edited row with the value persisted before: no
\* value is written to a column other than its own
C27_ColumnAlignment ==
  (CellEdited /\ last.ok /\ last.premem = LoadRows(last.pre)) =>
    \A c \in column_names \ {last.col} :
      db[last.row_index][c] = last.pre[last.row_index][c]

-----------------------------------------------------------------------------
(* Properties of ProductionTableModel.update_row *)

\* the columns update_row may write
UpdateRowColumns == {"calidad", "obs", "codigoDeProducto"}

\* the rows of the memory the last recode called update_row on
RecodeCalled == {last.vis[k] : k \in DOMAIN last.vis}

\* C28: update_row writes calidad, obs and the code of the row with the
\* (bobina_num, sec) of the row in memory and nothing else: every other
\* column and every other row of the table is as before, in memory only
\* these three fields of the row are replaced, and a row whose database
\* update failed is as before in the table and in memory
C28_UpdateRowFrame ==
  /\ RecodeApplied =>
       /\ Len(db) = Len(last.pre) /\ Len(data_rows) = Len(last.premem)
       /\ \A i \in DOMAIN db :
            /\ \A c \in column_names \ UpdateRowColumns : db[i][c] = last.pre[i][c]
            /\ db[i] # last.pre[i]
                 => \E j \in RecodeCalled \ last.failed :
                      /\ last.premem[j].bobina_num = db[i].bobina_num
                      /\ last.premem[j].sec = db[i].sec
       /\ \A j \in DOMAIN data_rows :
            /\ \A c \in column_names \ UpdateRowColumns :
                 data_rows[j][c] = last.premem[j][c]
            /\ j \notin RecodeCalled \ last.failed => data_rows[j] = last.premem[j]
  /\ last.op = "edit" =>
       /\ Len(last.mid) = Len(last.pre)
       /\ \A i \in DOMAIN last.mid :
            /\ \A c \in column_names \ UpdateRowColumns :
                 last.mid[i][c] = last.pre[i][c]
            /\ last.mid[i] # last.pre[i]
                 => /\ last.ok
                    /\ last.premem[last.row_index].bobina_num = last.pre[i].bobina_num
                    /\ last.premem[last.row_index].sec = last.pre[i].sec
       /\ ~last.ok => data_rows = last.premem

\* a recode in which update_row wrote one visible row and failed on another
C28_Witness ==
  /\ RecodeApplied
  /\ last.failed # {}
  /\ \E i \in DOMAIN db :
       /\ db[i].calidad # last.pre[i].calidad
       /\ db[i].codigoDeProducto # last.pre[i].codigoDeProducto
       /\ data_rows[i].calidad = db[i].calidad

-----------------------------------------------------------------------------
(* Properties of the edit of a measurement *)

MeasurementEdited == last.op = "edit_measurement" /\ last.ok

\* C29: after the edit dialog was accepted with ancho, gramaje or diametro
\* changed and the table was loaded again, the persisted row holds the
\* measurement typed and its code is the full composition of its fields
C29_MeasurementEdit ==
  MeasurementEdited =>
    \A rowid \in DOMAIN db :
      (/\ db[rowid].bobina_num = last.row_data.bobina_num
       /\ db[rowid].sec = last.row_data.sec)
        => /\ db[rowid][last.col] = last.value
           /\ db[rowid].codigoDeProducto = nuevo_codigo(db[rowid])

-----------------------------------------------------------------------------
(* Properties of the order of the two steps of the pass *)

\* C30: calidad and obs are derived before the code is composed: after
\* the pass the code of every row whose code was NULL or '' is the
\* composition alistamiento + codprod + calidad + obs + gramaje + diametro
\* + ancho made with the calidad and obs the row holds when the pass ends
C30_DeriveBeforeCompose ==
  last.op = "pass" =>
    \A rowid \in DOMAIN db :
      SelectedForFill(last.pre[rowid]) =>
        db[rowid].codigoDeProducto
          = StrOrEmpty(db[rowid].alistamiento) \o StrOrEmpty(db[rowid].codprod)
              \o db[rowid].calidad \o db[rowid].obs
              \o _format_gramaje(db[rowid].gramaje) \o _format_diametro(db[rowid].diametro)
              \o _format_ancho(db[rowid].ancho)

\* a pass on a row without code whose calidad and obs were NULL and are
\* derived as 05 and 02
C30_Witness ==
  /\ last.op = "pass"
  /\ \E rowid \in DOMAIN db :
       /\ SelectedForFill(last.pre[rowid])
       /\ last.pre[rowid].calidad = Null /\ last.pre[rowid].obs = Null
       /\ db[rowid].calidad = <<"0", "5">> /\ db[rowid].obs = <<"0", "2">>
       /\ SubSeq(db[rowid].codigoDeProducto, 3, 8)
            = StrOrEmpty(db[rowid].codprod) \o <<"0", "5", "0", "2">>

=============================================================================
